---- MODULE Spec2Model ----
(***************************************************************************)
(* Falcon Guardian: the predictor's threat history and pattern analysis,   *)
(* the application's threat list, the privacy-score computation and the    *)
(* start-up sequence, as state machines over the JavaScript sources.       *)
(*                                                                         *)
(* Conventions.  Times are milliseconds (Date.now()).  Confidences are     *)
(* kept as hundredths (0.8 is 80, 0.95 is 95) and the uniqueness estimate  *)
(* as ten-thousandths, so every value stays an integer.  One handler reads *)
(* the clock once: the Date.now() calls of one synchronous handler are     *)
(* taken at the same millisecond.  The display coordinates angle and       *)
(* distance of a simulated threat are not modelled.                        *)
(***************************************************************************)
EXTENDS Integers, Sequences, FiniteSets, TLC

VARIABLES
    now,            \* Date.now()
    threats,        \* FalconGuardian.state.threats
    threatHistory,  \* Predictor.threatHistory
    arrivals,       \* history variable: every record ever pushed to threatHistory
    lastThreat,     \* argument of the latest analyzeThreat call (optional)
    patterns,       \* patterns returned by the latest analyzeThreat
    predictions,    \* FalconGuardian.state.predictions
    nextPrediction, \* value returned by the latest predictNextThreat (optional)
    riskScore,      \* value returned by the latest calculateRiskScore (optional)
    scenario,       \* the inputs of this run (set once, by Init)
    advances,       \* number of clock steps (or timer ticks) taken
    trackers,       \* FalconGuardian.state.trackers
    privacyScore,   \* FalconGuardian.state.privacyScore
    protocol,       \* window.location.protocol
    permissionsApi, \* whether navigator.permissions exists
    fingerprint,    \* what PrivacyDetector.getFingerprint() returned last (optional)
    inFlight,       \* the running updatePrivacyScore invocation (optional)
    lastUpdate,     \* history variable: the latest completed updatePrivacyScore
                    \* (optional): its sum before clamping and how its
                    \* calculatePermissionScore went
    uniqLog,        \* history variable: (serialization, value) of every calculateUniqueness call
    dispScore,      \* the .score-value and .score-label elements (optional: unset markup)
    dispMetrics,    \* the four .metric-value elements (optional: unset markup)
    initPc,         \* where FalconGuardian.init stands: "new", "monitoring", "scoring",
                    \* "ui", "done" (returned) or "rejected" (an error left init)
    mode,           \* "starting", "normal" or "fallback"
    modules,        \* the modules constructed so far
    hooksInstalled, \* whether the detector has replaced the page's APIs
    realtimeTimer,  \* whether the 1 s interval of startRealtimeUpdates is set
    basicTimer,     \* whether the 2 s interval of startBasicUpdates is set
    initError,      \* "none", or the step of init that threw
    netLog,         \* history variable: the calls of the replaced fetch and
                    \* XMLHttpRequest.prototype.open, with what they did
    demoInterval,   \* FalconGuardian.demoInterval: null or a timer handle (optional)
    activeIntervals,\* the handles of the demo-mode intervals that are set
    nextTimerId,    \* the handle the next setInterval returns
    settingLog,     \* history variable: the updateSetting calls made
    storedTheme,    \* localStorage['falcon-theme'] (optional)
    bodyClasses,    \* which of light-theme, dark-theme document.body carries
    colorScheme,    \* document.documentElement.style.colorScheme (optional)
    onSystemThemeChange, \* whether FalconGuardian._onSystemThemeChange is set
    mediaListeners, \* number of 'change' listeners on systemThemeMedia
    systemDark,     \* systemThemeMedia.matches
    themeLog,       \* history variable: the arguments of the updateTheme calls
    tunnelLog,      \* history variable: the quantumTunneling and
                    \* calculateTunnelingProbability calls, with what they returned
    hashInput,      \* history variable: the string handed to the latest
                    \* _djb2Hash call that was followed (optional)
    hashOutput,     \* history variable: what that call returned (optional)
    docState,       \* "loading", "interactive" (DOMContentLoaded dispatched) or
                    \* "complete" (the window's load event dispatched)
    startTimer,     \* the 500 ms timer of the DOMContentLoaded listener:
                    \* "unarmed", "armed" or "fired"
    falconGuardianInitialized, \* window.falconGuardianInitialized
    instances,      \* number of FalconGuardian objects whose constructor returned
    pendingInits,   \* number of init calls waiting at await this.startMonitoring()
    hookSets,       \* number of times PrivacyDetector.hookAPIs replaced the page's APIs
    realtimeLoops,  \* number of 1 s intervals set by startRealtimeUpdates
    basicLoops,     \* number of 2 s intervals set by startBasicUpdates
    startLog,       \* history variable: the start-up triggers, with the flag each
                    \* found and whether it constructed an instance
    qubits,         \* QuantumEngine.quantumState.qubits (optional: unset before init)
    quantumCall,    \* history variable: the latest call of a scoring operation
                    \* of the QuantumEngine, with what it returned (optional)
    installedToDataURL,        \* the function at HTMLCanvasElement.prototype.toDataURL:
                               \* "native", "detectorHook" or "shieldWrapper"
    installedRTCPeerConnection,\* the value of window.RTCPeerConnection: "undefined",
                               \* "native" or "shieldWrapper"
    originalFunctions,         \* Shield.originalFunctions (toDataURL, RTCPeerConnection;
                               \* "undefined" for a property that is not there)
    toggleLog       \* history variable: the enable and disable calls of the canvas
                    \* and webrtc protection, with what was installed before and after

analysisVars == <<threatHistory, arrivals, lastThreat, patterns, predictions,
                  nextPrediction, riskScore>>
scoreVars == <<trackers, privacyScore, protocol, permissionsApi, fingerprint,
               inFlight, lastUpdate, uniqLog>>
displayVars == <<dispScore, dispMetrics>>
initVars == <<initPc, mode, modules, hooksInstalled, realtimeTimer, basicTimer, initError>>

pageVars == <<netLog, demoInterval, activeIntervals, nextTimerId, settingLog>>
hashVars == <<hashInput, hashOutput>>
startVars == <<docState, startTimer, falconGuardianInitialized, instances, pendingInits,
               hookSets, realtimeLoops, basicLoops, startLog>>
quantumVars == <<qubits, quantumCall>>
shieldVars == <<installedToDataURL, installedRTCPeerConnection, originalFunctions, toggleLog>>
moduleVars == <<hashVars, startVars, quantumVars, shieldVars>>
themeVars == <<storedTheme, bodyClasses, colorScheme, onSystemThemeChange,
               mediaListeners, systemDark, themeLog>>

vars == <<now, threats, scenario, advances, analysisVars, scoreVars, displayVars, initVars,
          pageVars, themeVars, tunnelLog, moduleVars>>

\* null, undefined, "no value yet": an optional value is a sequence of length 0 or 1.
None == << >>
Some(v) == << v >>

----------------------------------------------------------------------------
(* Theme (src/js/core.js)                                                  *)

ThemeOptions == {"auto", "light", "dark"}
ThemeClasses == {"light-theme", "dark-theme"}

\* The theme state of a page, as one value.
themeState(stored, classes, scheme, handler, listeners, dark) ==
    [stored |-> stored, classes |-> classes, scheme |-> scheme,
     handler |-> handler, listeners |-> listeners, dark |-> dark]

\* The page as the markup and the constructor leave it: nothing on the body,
\* _onSystemThemeChange undefined, nothing listening to systemThemeMedia.
freshTheme(saved, classes, dark) ==
    themeState(saved, classes, None, FALSE, 0, dark)

\* A variant that leaves the listener where it is when the option is not auto.
updateThemeKeepingListener(page, theme) ==
    LET appliedTheme == IF theme = "auto"
                        THEN (IF page.dark THEN "dark" ELSE "light")
                        ELSE theme
        removed == page.classes \ ThemeClasses
        added == IF appliedTheme = "light" THEN removed \cup {"light-theme"}
                 ELSE IF appliedTheme = "dark" THEN removed \cup {"dark-theme"}
                 ELSE removed
        scheme == IF appliedTheme = "dark" THEN "dark" ELSE "light"
        registers == theme = "auto" /\ ~page.handler
    IN  themeState(Some(theme), added, Some(scheme),
                   page.handler \/ registers,
                   IF registers THEN page.listeners + 1 ELSE page.listeners,
                   page.dark)

\* updateTheme(theme): both theme classes off, the applied one on, the colour
\* scheme set, the system listener added (once) for auto and removed
\* otherwise, the selected option stored.
updateTheme(page, theme) ==
    LET appliedTheme == IF theme = "auto"
                        THEN (IF page.dark THEN "dark" ELSE "light")
                        ELSE theme
        removed == page.classes \ ThemeClasses
        added == IF appliedTheme = "light" THEN removed \cup {"light-theme"}
                 ELSE IF appliedTheme = "dark" THEN removed \cup {"dark-theme"}
                 ELSE removed
        scheme == IF appliedTheme = "dark" THEN "dark" ELSE "light"
        registers == theme = "auto" /\ ~page.handler
        unregisters == theme # "auto" /\ page.handler
    IN  themeState(Some(theme), added, Some(scheme),
                   theme = "auto",
                   IF registers THEN page.listeners + 1
                   ELSE IF unregisters THEN page.listeners - 1
                   ELSE page.listeners,
                   page.dark)

\* What one registered _onSystemThemeChange does when the preference changes.
systemThemeChanged(page, matches) ==
    LET preferred == IF matches THEN "dark" ELSE "light"
    IN  themeState(page.stored,
                   (page.classes \ ThemeClasses)
                       \cup {IF preferred = "dark" THEN "dark-theme" ELSE "light-theme"},
                   Some(preferred), page.handler, page.listeners, page.dark)

\* initializeTheme on a page that has the themeSwitcher element: the saved
\* option, or auto when nothing is saved, goes through updateTheme.
savedThemeOr(saved) == IF saved = None THEN "auto" ELSE saved[1]
initializeTheme(page) == updateTheme(page, savedThemeOr(page.stored))

\* The theme variables hold the state `page` after the calls `calls`.
ThemeIs(page, calls) ==
    /\ storedTheme = page.stored
    /\ bodyClasses = page.classes
    /\ colorScheme = page.scheme
    /\ onSystemThemeChange = page.handler
    /\ mediaListeners = page.listeners
    /\ systemDark = page.dark
    /\ themeLog = calls

\* The theme variables take the state `page` after the calls `calls`.
ThemeBecomes(page, calls) ==
    /\ storedTheme' = page.stored
    /\ bodyClasses' = page.classes
    /\ colorScheme' = page.scheme
    /\ onSystemThemeChange' = page.handler
    /\ mediaListeners' = page.listeners
    /\ systemDark' = page.dark
    /\ themeLog' = calls

\* A first visit on a system that prefers light, after initializeTheme.
ThemeAtRest ==
    ThemeIs(initializeTheme(freshTheme(None, {}, FALSE)), << "auto" >>)

\* The document while its scripts are evaluated: no start-up trigger has
\* been dispatched, the flag is unset, nothing is constructed.
StartAtRest ==
    /\ docState = "loading"
    /\ startTimer = "unarmed"
    /\ falconGuardianInitialized = FALSE
    /\ instances = 0
    /\ pendingInits = 0
    /\ hookSets = 0
    /\ realtimeLoops = 0
    /\ basicLoops = 0
    /\ startLog = << >>

\* A QuantumEngine as its constructor leaves it: quantumState has no qubits.
QuantumAtRest ==
    /\ qubits = None
    /\ quantumCall = None

\* A Shield as its constructor leaves it (originalFunctions = {}), on a page
\* whose canvas and WebRTC functions are the browser's own.
ShieldAtRest ==
    /\ installedToDataURL = "native"
    /\ installedRTCPeerConnection = "native"
    /\ originalFunctions = [toDataURL |-> "undefined", RTCPeerConnection |-> "undefined"]
    /\ toggleLog = << >>

\* Of the modules' functions followed on their own, none has been called.
ModulesAtRest ==
    /\ hashInput = None
    /\ hashOutput = None
    /\ StartAtRest
    /\ QuantumAtRest
    /\ ShieldAtRest

\* The page before any of its scripts has used the network and before the
\* user has touched a setting: this.demoInterval = null, no demo interval set.
PageAtRest ==
    /\ netLog = << >>
    /\ demoInterval = None
    /\ activeIntervals = {}
    /\ nextTimerId = 1
    /\ settingLog = << >>
    /\ ThemeAtRest
    /\ tunnelLog = << >>
    /\ ModulesAtRest

\* The same page after the user has switched demo mode on.
PageWithDemoMode ==
    /\ netLog = << >>
    /\ demoInterval = Some(1)
    /\ activeIntervals = {1}
    /\ nextTimerId = 2
    /\ settingLog = << [setting |-> "demoMode", enabled |-> TRUE, threw |-> FALSE] >>
    /\ ThemeAtRest
    /\ tunnelLog = << >>
    /\ ModulesAtRest

----------------------------------------------------------------------------
(* Predictor (src/unnamed/part_000)                                        *)

HistoryCap == 100
PatternWindow == 60000
RiskWindow == 300000

Min(a, b) == IF a < b THEN a ELSE b
Max(a, b) == IF a > b THEN a ELSE b

\* Array.prototype.slice(-n): the last n elements (all of them if fewer).
SliceLast(s, n) ==
    IF Len(s) <= n THEN s ELSE SubSeq(s, Len(s) - n + 1, Len(s))

\* {...threat, timestamp: Date.now()}
Restamp(threat, t) == [threat EXCEPT !.timestamp = t]

\* Mutant: on overflow the first 100 are kept (slice(0, 100)), dropping the newest.
pushHistoryKeepingFirst(hist, threat, t) ==
    LET pushed == Append(hist, Restamp(threat, t))
    IN  IF Len(pushed) > HistoryCap THEN SubSeq(pushed, 1, HistoryCap) ELSE pushed

\* A variant that puts the new event in front (unshift), keeping the first 100.
pushHistoryAtFront(hist, threat, t) ==
    LET pushed == << Restamp(threat, t) >> \o hist
    IN  IF Len(pushed) > HistoryCap THEN SubSeq(pushed, 1, HistoryCap) ELSE pushed

\* A variant that records a threat only when it is not the one recorded last
\* (same category and severity): a tick without a new threat adds nothing.
pushHistoryOncePerThreat(hist, threat, t) ==
    LET pushed == Append(hist, Restamp(threat, t))
        repeated == /\ Len(hist) > 0
                    /\ hist[Len(hist)].type = threat.type
                    /\ hist[Len(hist)].severity = threat.severity
    IN  IF repeated THEN hist
        ELSE IF Len(pushed) > HistoryCap THEN SliceLast(pushed, HistoryCap) ELSE pushed

\* A variant that stamps every stored event anew.
pushHistoryRestampingAll(hist, threat, t) ==
    LET pushed == Append([i \in DOMAIN hist |-> Restamp(hist[i], t)], Restamp(threat, t))
    IN  IF Len(pushed) > HistoryCap THEN SliceLast(pushed, HistoryCap) ELSE pushed

\* analyzeThreat, lines 62-71: push, then keep the last 100.
pushHistory(hist, threat, t) ==
    LET pushed == Append(hist, Restamp(threat, t))
    IN  IF Len(pushed) > HistoryCap THEN SliceLast(pushed, HistoryCap) ELSE pushed

\* filter(threat => now - threat.timestamp < timeWindow)
recentThreats(hist, t, window) ==
    SelectSeq(hist, LAMBDA e : t - e.timestamp < window)

\* Mutant: the threshold off by one (fires at three).
rapidRepetitionAtThree(recent, currentThreat) ==
    LET sameTypeThreats == SelectSeq(recent, LAMBDA e : e.type = currentThreat.type)
    IN  IF Len(sameTypeThreats) > 2
        THEN << [type |-> "rapid_repetition", threatType |-> currentThreat.type,
                 count |-> Len(sameTypeThreats), severity |-> "medium"] >>
        ELSE << >>

\* Pattern 1: rapid threats of the same type.
rapidRepetition(recent, currentThreat) ==
    LET sameTypeThreats == SelectSeq(recent, LAMBDA e : e.type = currentThreat.type)
    IN  IF Len(sameTypeThreats) > 3
        THEN << [type |-> "rapid_repetition", threatType |-> currentThreat.type,
                 count |-> Len(sameTypeThreats), severity |-> "medium"] >>
        ELSE << >>

\* Mutant: counts the events, not their distinct types.
multipleThreatTypesCountingEvents(recent) ==
    IF Len(recent) > 5
    THEN << [type |-> "multiple_threat_types", count |-> Len(recent), severity |-> "high"] >>
    ELSE << >>

\* Pattern 2: multiple different threat types.
multipleThreatTypes(recent) ==
    LET uniqueThreatTypes == { recent[i].type : i \in DOMAIN recent }
    IN  IF Cardinality(uniqueThreatTypes) > 5
        THEN << [type |-> "multiple_threat_types",
                 count |-> Cardinality(uniqueThreatTypes), severity |-> "high"] >>
        ELSE << >>

\* A variant with the threshold off by one (fires at two).
highSeverityClusterAtTwo(recent) ==
    LET highSeverityThreats ==
            SelectSeq(recent, LAMBDA e : e.severity = "high" \/ e.severity = "critical")
    IN  IF Len(highSeverityThreats) > 1
        THEN << [type |-> "high_severity_cluster",
                 count |-> Len(highSeverityThreats), severity |-> "critical"] >>
        ELSE << >>

\* Pattern 3: high severity threats.
highSeverityCluster(recent) ==
    LET highSeverityThreats ==
            SelectSeq(recent, LAMBDA e : e.severity = "high" \/ e.severity = "critical")
    IN  IF Len(highSeverityThreats) > 2
        THEN << [type |-> "high_severity_cluster",
                 count |-> Len(highSeverityThreats), severity |-> "critical"] >>
        ELSE << >>

detectPatterns(hist, currentThreat, t) ==
    LET recent == recentThreats(hist, t, PatternWindow)
    IN  rapidRepetition(recent, currentThreat)
            \o multipleThreatTypes(recent)
            \o highSeverityCluster(recent)

\* Mutant: the case of high_severity_cluster is missing from the switch.
predictionForWithoutCluster(pattern) ==
    CASE pattern.type = "rapid_repetition" ->
            << [type |-> "escalation_prediction", about |-> pattern.threatType,
                confidence |-> 80, timeframe |-> "5-10 minutes",
                severity |-> pattern.severity] >>
      [] pattern.type = "multiple_threat_types" ->
            << [type |-> "coordinated_attack", about |-> "",
                confidence |-> 90, timeframe |-> "immediate", severity |-> "high"] >>
      [] OTHER -> << >>

\* One case of the switch in generatePredictions; an unknown pattern type adds
\* nothing.  "about" is the variable part of the message (the threat type named
\* in it), empty for a fixed message.
predictionFor(pattern) ==
    CASE pattern.type = "rapid_repetition" ->
            << [type |-> "escalation_prediction", about |-> pattern.threatType,
                confidence |-> 80, timeframe |-> "5-10 minutes",
                severity |-> pattern.severity] >>
      [] pattern.type = "multiple_threat_types" ->
            << [type |-> "coordinated_attack", about |-> "",
                confidence |-> 90, timeframe |-> "immediate", severity |-> "high"] >>
      [] pattern.type = "high_severity_cluster" ->
            << [type |-> "critical_threat", about |-> "",
                confidence |-> 95, timeframe |-> "immediate", severity |-> "critical"] >>
      [] OTHER -> << >>

RECURSIVE generatePredictions(_)
generatePredictions(pats) ==
    IF pats = << >> THEN << >>
    ELSE predictionFor(Head(pats)) \o generatePredictions(Tail(pats))

\* frequency[type] = (frequency[type] || 0) + 1, keys in insertion order:
\* a sequence of [type, count] in order of first occurrence.
RECURSIVE tally(_, _)
tally(types, freq) ==
    IF types = << >> THEN freq
    ELSE LET ty == Head(types)
             at == { i \in DOMAIN freq : freq[i].type = ty }
         IN  IF at = {}
             THEN tally(Tail(types), Append(freq, [type |-> ty, count |-> 1]))
             ELSE LET i == CHOOSE j \in at : TRUE
                  IN  tally(Tail(types), [freq EXCEPT ![i].count = @ + 1])

\* A variant in which the last entry of highest count comes first.
mostFrequentLastSeen(freq) ==
    LET top == CHOOSE i \in DOMAIN freq :
                  /\ \A j \in DOMAIN freq : freq[j].count <= freq[i].count
                  /\ \A j \in DOMAIN freq : freq[j].count = freq[i].count => j <= i
    IN  freq[top]

\* Object.entries(frequency).sort(([,a],[,b]) => b - a)[0]: the sort is stable,
\* so the head is the first entry, in insertion order, among those of highest count.
mostFrequent(freq) ==
    LET top == CHOOSE i \in DOMAIN freq :
                  /\ \A j \in DOMAIN freq : freq[j].count <= freq[i].count
                  /\ \A j \in DOMAIN freq : freq[j].count = freq[i].count => i <= j
    IN  freq[top]

\* Mutant: tallies the whole history instead of the last 10 events.
predictNextThreatWholeHistory(hist) ==
    IF Len(hist) < 3 THEN None
    ELSE LET threatTypes == [i \in DOMAIN hist |-> hist[i].type]
             best == mostFrequent(tally(threatTypes, << >>))
         IN  IF best.count > 2
             THEN Some([predictedType |-> best.type,
                        confidence |-> Min(80, best.count * 10),
                        timeframe |-> "within 30 seconds"])
             ELSE None

predictNextThreat(hist) ==
    IF Len(hist) < 3 THEN None
    ELSE LET recent == SliceLast(hist, 10)
             threatTypes == [i \in DOMAIN recent |-> recent[i].type]
             frequency == tally(threatTypes, << >>)
             best == mostFrequent(frequency)
         IN  IF best.count > 2
             THEN Some([predictedType |-> best.type,
                        confidence |-> Min(80, best.count * 10),
                        timeframe |-> "within 30 seconds"])
             ELSE None

severityWeight(severity) ==
    CASE severity = "critical" -> 10
      [] severity = "high" -> 5
      [] severity = "medium" -> 2
      [] severity = "low" -> 1
      [] OTHER -> 0

RECURSIVE sumWeights(_)
sumWeights(s) ==
    IF s = << >> THEN 0 ELSE severityWeight(Head(s).severity) + sumWeights(Tail(s))

\* Mutant: the sum is returned without the Math.min.
calculateRiskScoreUnclamped(hist, t) ==
    sumWeights(recentThreats(hist, t, RiskWindow))

calculateRiskScore(hist, t) ==
    Min(100, sumWeights(recentThreats(hist, t, RiskWindow)))

\* A variant that drops from the history the events it filtered out.
riskScoreCallPruning(hist, t) ==
    [returned |-> calculateRiskScore(hist, t),
     threatHistory |-> recentThreats(hist, t, RiskWindow)]

\* A call of calculateRiskScore as the predictor sees it: the value returned
\* and this.threatHistory afterwards (filter builds a new array; nothing is
\* assigned to a field).
riskScoreCall(hist, t) ==
    [returned |-> calculateRiskScore(hist, t), threatHistory |-> hist]

----------------------------------------------------------------------------
(* FalconGuardian: the privacy score (src/js/core.js)                      *)

\* A JavaScript string is its sequence of UTF-16 code units.
\* The snapshot of getFingerprint is kept to four of its members: language and
\* platform (strings), audio and battery (true, or undefined when the scan
\* found nothing).  JSON.stringify writes the members in the order of the
\* object literal and leaves out the undefined ones.
languageText(language) ==
    CASE language = "en-US" -> <<101, 110, 45, 85, 83>>
      [] language = "fr" -> <<102, 114>>

platformText(platform) ==
    CASE platform = "Linux" -> <<76, 105, 110, 117, 120>>
      [] platform = "Win32" -> <<87, 105, 110, 51, 50>>

JSONstringify(fp) ==
    <<123, 34, 108, 97, 110, 103, 117, 97, 103, 101, 34, 58, 34>>                                  \* {"language":"
        \o languageText(fp.language)
        \o <<34, 44, 34, 112, 108, 97, 116, 102, 111, 114, 109, 34, 58, 34>>                           \* ","platform":"
        \o platformText(fp.platform)
        \o <<34>>                            \* "
        \o (IF fp.audio THEN <<44, 34, 97, 117, 100, 105, 111, 34, 58, 116, 114, 117, 101>> ELSE << >>)       \* ,"audio":true
        \o (IF fp.battery THEN <<44, 34, 98, 97, 116, 116, 101, 114, 121, 34, 58, 116, 114, 117, 101>> ELSE << >>)   \* ,"battery":true
        \o <<125>>                            \* }

\* Numbers beyond 32 bits are kept as [hi, lo] with value hi * 65536 + lo and
\* 0 <= lo < 65536 (hi may be negative).
Limb == 65536

\* hash << 5: ToInt32(hash) shifted left by 5 within 32 bits, read as signed.
\* Only the low 27 bits of hash survive the shift.
shiftLeft5(h) ==
    LET uhi == (h.hi % 2048) * 32 + (h.lo \div 2048)
        ulo == (h.lo % 2048) * 32
    IN  [hi |-> IF uhi >= 32768 THEN uhi - Limb ELSE uhi, lo |-> ulo]

\* hash = ((hash << 5) + hash) + char: the additions are of Numbers, not wrapped.
djb2Step(h, char) ==
    LET shifted == shiftLeft5(h)
        lo == shifted.lo + h.lo + char
    IN  [hi |-> shifted.hi + h.hi + (lo \div Limb), lo |-> lo % Limb]

\* The loop from its iteration i on, hash being h.  (The test on next.lo is
\* always true: it makes the evaluation compute next before going on.)
RECURSIVE djb2From(_, _, _)
djb2From(h, str, i) ==
    IF i > Len(str) THEN h
    ELSE LET next == djb2Step(h, str[i])
         IN  IF next.lo >= 0 THEN djb2From(next, str, i + 1) ELSE next

djb2Hash(str) == djb2From([hi |-> 0, lo |-> 5381], str, 1)

\* Math.abs
absWide(h) ==
    IF h.hi >= 0 THEN h
    ELSE IF h.lo = 0 THEN [hi |-> 0 - h.hi, lo |-> 0]
    ELSE [hi |-> 0 - h.hi - 1, lo |-> Limb - h.lo]

\* x % 10000 for x >= 0
modTenThousand(h) == ((h.hi % 10000) * (Limb % 10000) + h.lo) % 10000

\* A variant without Math.abs: the remainder of a negative hash is negative.
calculateUniquenessSignedRemainder(fp) ==
    LET hash == djb2Hash(JSONstringify(fp))
    IN  IF hash.hi < 0 THEN 0 - modTenThousand(absWide(hash))
        ELSE modTenThousand(hash)

\* (Math.abs(hash) % 10000) / 10000, in ten-thousandths.
calculateUniqueness(fp) ==
    modTenThousand(absWide(djb2Hash(JSONstringify(fp))))

\* The two snapshots getFingerprint returns in the modelled sessions.  The hash
\* of the first is negative; the uniqueness of the second is above 0.8.
PlainFingerprint ==
    [language |-> "en-US", platform |-> "Win32", audio |-> TRUE, battery |-> TRUE]

RareFingerprint ==
    [language |-> "en-US", platform |-> "Win32", audio |-> TRUE, battery |-> FALSE]

Fingerprints == {PlainFingerprint, RareFingerprint}

\* The serialization and the value of calculateUniqueness for each of these
\* snapshots, computed once.
uniquenessCall ==
    [fp \in Fingerprints |->
        [text |-> JSONstringify(fp), value |-> calculateUniqueness(fp)]]

\* A variant with the comparison turned round.
calculateFingerprintScoreBelow(fp) ==
    IF uniquenessCall[fp].value < 8000 THEN 0 - 20 ELSE 0

\* uniqueness > 0.8 ? -20 : 0
calculateFingerprintScore(fp) ==
    IF uniquenessCall[fp].value > 8000 THEN 0 - 20 ELSE 0

Permissions == << "camera", "microphone", "geolocation", "notifications" >>

\* How one navigator.permissions.query settles: with one of the three states,
\* or by throwing or rejecting.
QueryOutcomes == {"granted", "denied", "prompt", "throws"}

\* A variant that takes the tracker factor to be 0.
newInvocationIgnoringTrackers(trackerCount, proto) ==
    [trackers |-> 0,
     https |-> IF proto = "https:" THEN 10 ELSE 0 - 20,
     score |-> 0, next |-> 1, visited |-> << >>, granted |-> 0, failed |-> 0,
     trackerCount |-> trackerCount, caller |-> "startMonitoring"]

\* The locals of a calculatePermissionScore that has not looked at anything yet,
\* inside an updatePrivacyScore that has read the tracker count and the protocol.
\* visited, granted and failed are history: the permissions the loop has gone
\* through, the number of queries that resolved with state granted and the
\* number that threw or rejected; trackerCount is history too: the
\* state.trackers.length that was read.  caller is where updatePrivacyScore
\* returns to.
newInvocation(trackerCount, proto) ==
    [trackers |-> trackerCount * (0 - 5),
     https |-> IF proto = "https:" THEN 10 ELSE 0 - 20,
     score |-> 0, next |-> 1, visited |-> << >>, granted |-> 0, failed |-> 0,
     trackerCount |-> trackerCount, caller |-> "startMonitoring"]

\* A variant with the try around the loop: a throw ends the loop.
afterQueryAbortingOnThrow(call, outcome) ==
    [call EXCEPT !.score = IF outcome = "granted" THEN @ - 5 ELSE @,
                 !.granted = IF outcome = "granted" THEN @ + 1 ELSE @,
                 !.failed = IF outcome = "throws" THEN @ + 1 ELSE @,
                 !.visited = Append(@, Permissions[call.next]),
                 !.next = IF outcome = "throws" THEN Len(Permissions) + 1 ELSE @ + 1]

\* One iteration of the loop of calculatePermissionScore whose query settled
\* with outcome (a throw is caught inside the iteration).
afterQuery(call, outcome) ==
    [call EXCEPT !.score = IF outcome = "granted" THEN @ - 5 ELSE @,
                 !.granted = IF outcome = "granted" THEN @ + 1 ELSE @,
                 !.failed = IF outcome = "throws" THEN @ + 1 ELSE @,
                 !.visited = Append(@, Permissions[call.next]),
                 !.next = @ + 1]

\* The whole loop when navigator.permissions is absent: no query, no await.
withoutPermissionsApi(call) ==
    [call EXCEPT !.visited = Permissions, !.next = Len(Permissions) + 1]

\* A variant with the upper limit only.
clampScoreUpperOnly(score) == Min(100, score)

\* Math.max(0, Math.min(100, score))
clampScore(score) == Max(0, Min(100, score))

getScoreLabel(score) ==
    IF score >= 90 THEN "Excellent"
    ELSE IF score >= 70 THEN "Good"
    ELSE IF score >= 50 THEN "Fair"
    ELSE IF score >= 30 THEN "Poor"
    ELSE "Critical"

\* score = 100 plus every factor
rawScore(call, fp) ==
    100 + call.trackers + call.https + call.score + calculateFingerprintScore(fp)

updateRecord(call, fp) ==
    [raw |-> rawScore(call, fp), trackers |-> call.trackers, https |-> call.https,
     permissions |-> call.score, fingerprint |-> calculateFingerprintScore(fp),
     visited |-> call.visited, granted |-> call.granted, failed |-> call.failed,
     trackerCount |-> call.trackerCount]

\* What the element pair .score-value / .score-label shows after updateUI.
\* Every factor is an integer, so Math.round leaves the value as it is.
scoreDisplay(value) == Some([value |-> value, label |-> getScoreLabel(value)])

\* What one run of updatePrivacyScore leaves behind, given the locals of the
\* finished calculatePermissionScore and the snapshot getFingerprint returned.
\* lastUpdate and uniqLog are history: what the last run went through, and
\* every (serialization, uniqueness) pair calculateUniqueness has produced.
ScoreWrite(call, fp) ==
    /\ fingerprint' = Some(fp)
    /\ lastUpdate' = Some(updateRecord(call, fp))
    /\ privacyScore' = clampScore(rawScore(call, fp))
    /\ dispScore' = scoreDisplay(privacyScore')
    /\ uniqLog' = uniqLog \cup {uniquenessCall[fp]}

\* The score variables after the updatePrivacyScore of startMonitoring, on a
\* page where no tracker was blocked and no permission is granted.
ScoreAfterStart(proto, api, fp) ==
    LET call == withoutPermissionsApi(newInvocation(0, proto))
    IN  /\ trackers = << >>
        /\ protocol = proto
        /\ permissionsApi = api
        /\ fingerprint = Some(fp)
        /\ inFlight = None
        /\ lastUpdate = Some(updateRecord(call, fp))
        /\ privacyScore = clampScore(rawScore(call, fp))
        /\ dispScore = scoreDisplay(privacyScore)
        /\ uniqLog = {uniquenessCall[fp]}

ScoreAtRest == ScoreAfterStart("https:", FALSE, PlainFingerprint)

AllModules == {"detector", "visualizer", "predictor", "shield", "quantum"}

\* After a successful init: every module is there, the detector's hooks are
\* installed, the 1 s timer is set and no metric card has been written yet.
Running ==
    /\ initPc = "done"
    /\ mode = "normal"
    /\ modules = AllModules
    /\ hooksInstalled = TRUE
    /\ realtimeTimer = TRUE
    /\ basicTimer = FALSE
    /\ initError = "none"
    /\ dispMetrics = None

----------------------------------------------------------------------------
(* The inputs of the analysis runs.                                        *)

\* What the hooks of detector.js and simulateThreats of core.js record.
canvasThreat == [type |-> "canvas_fingerprint", severity |-> "medium", timestamp |-> 0]
webglThreat == [type |-> "webgl_fingerprint", severity |-> "medium", timestamp |-> 0]
audioThreat == [type |-> "audio_fingerprint", severity |-> "low", timestamp |-> 0]
geoThreat == [type |-> "geolocation_access", severity |-> "high", timestamp |-> 0]
trackerThreat == [type |-> "tracker_detected", severity |-> "low", timestamp |-> 0]
\* Threats only a caller outside this repository hands to analyzeThreat (the
\* global state.threats is writable by any script): a sixth category, of
\* severity critical, and a seventh whose severity is none of the four.
webrtcThreat == [type |-> "webrtc_leak", severity |-> "critical", timestamp |-> 0]
sensorThreat == [type |-> "sensor_access", severity |-> "info", timestamp |-> 0]

MaxLongCalls == 13
MaxTimedCalls == 5
MaxWideCalls == 3
MaxTimedAdvances == 2
MaxWideAdvances == 1
MaxMixedCalls == 4

\* Clock steps: just inside and exactly on the 60 s window, and 240 s more,
\* which lands just inside or exactly on the 300 s window.
ClockSteps == {59999, 60000, 240000}

\* The history after six analyses at time 0: four categories, three events of
\* high severity.
WideSeed == << canvasThreat, webglThreat, audioThreat, geoThreat, geoThreat, geoThreat >>

\* The history after five analyses at time 0: five categories, one event of
\* high severity.
MixedSeed == << canvasThreat, webglThreat, audioThreat, geoThreat, trackerThreat >>

\* A run is one of: a long run over two kinds of threat with the clock still;
\* a short run over two kinds with clock steps; a run that starts from WideSeed and then sees all six categories;
\* a run that starts from MixedSeed and then sees a sixth category and one of the five.
Scenarios ==
    { [inputs |-> {canvasThreat, geoThreat}, seed |-> << >>,
       maxCalls |-> MaxLongCalls, maxAdvances |-> 0],
      [inputs |-> {webrtcThreat, sensorThreat}, seed |-> << >>,
       maxCalls |-> MaxLongCalls, maxAdvances |-> 0],
      [inputs |-> {canvasThreat, geoThreat}, seed |-> << >>,
       maxCalls |-> MaxTimedCalls, maxAdvances |-> MaxTimedAdvances],
      [inputs |-> {canvasThreat, webglThreat, audioThreat, geoThreat,
                   trackerThreat, webrtcThreat},
       seed |-> WideSeed,
       maxCalls |-> Len(WideSeed) + MaxWideCalls, maxAdvances |-> MaxWideAdvances],
      [inputs |-> {canvasThreat, webrtcThreat}, seed |-> MixedSeed,
       maxCalls |-> Len(MixedSeed) + MaxMixedCalls, maxAdvances |-> 0] }

----------------------------------------------------------------------------
(* One analysis tick of FalconGuardian (core.js), its synchronous part:    *)
(* updateMetrics reads the risk score, then analyzeThreats hands the       *)
(* latest listed threat to the predictor and stores the predictions.       *)

nextThreatEntry(next) ==
    IF next = None THEN << >>
    ELSE << [type |-> "next_threat_prediction", about |-> next[1].predictedType,
             confidence |-> next[1].confidence, timeframe |-> next[1].timeframe,
             severity |-> "medium"] >>

AnalysisTick(latestThreat) ==
    /\ Len(arrivals) < scenario.maxCalls
    /\ riskScore' = Some(riskScoreCall(threatHistory, now).returned)
    /\ threatHistory' = pushHistory(riskScoreCall(threatHistory, now).threatHistory,
                                    latestThreat, now)
    /\ arrivals' = Append(arrivals, Restamp(latestThreat, now))
    /\ lastThreat' = Some(latestThreat)
    /\ patterns' = detectPatterns(threatHistory', latestThreat, now)
    /\ nextPrediction' = predictNextThreat(threatHistory')
    /\ predictions' = generatePredictions(patterns') \o nextThreatEntry(nextPrediction')
    /\ UNCHANGED <<now, threats, scenario, pageVars, themeVars, tunnelLog, moduleVars, advances, scoreVars, displayVars, initVars>>

AdvanceClock(d) ==
    /\ advances < scenario.maxAdvances
    /\ now' = now + d
    /\ advances' = advances + 1
    /\ UNCHANGED <<threats, scenario, pageVars, themeVars, tunnelLog, moduleVars, analysisVars, scoreVars, displayVars, initVars>>

\* The state after the analyses that built the seed (all at time 0), or the
\* state after construction when the seed is empty.
Init ==
    /\ scenario \in Scenarios
    /\ now = 0
    /\ PageAtRest
    /\ threats = << >>
    /\ threatHistory = scenario.seed
    /\ arrivals = scenario.seed
    /\ advances = 0
    /\ ScoreAtRest
    /\ Running
    /\ IF scenario.seed = << >>
       THEN /\ lastThreat = None
            /\ patterns = << >>
            /\ predictions = << >>
            /\ nextPrediction = None
            /\ riskScore = None
       ELSE LET seed == scenario.seed
                last == seed[Len(seed)]
            IN  /\ lastThreat = Some(last)
                /\ patterns = detectPatterns(seed, last, 0)
                /\ nextPrediction = predictNextThreat(seed)
                /\ predictions = generatePredictions(patterns) \o nextThreatEntry(nextPrediction)
                /\ riskScore = Some(calculateRiskScore(SubSeq(seed, 1, Len(seed) - 1), 0))

Next ==
    \/ \E t \in scenario.inputs : AnalysisTick(t)
    \/ \E d \in ClockSteps : AdvanceClock(d)

Spec == Init /\ [][Next]_vars

----------------------------------------------------------------------------
(* Properties of the analysis (specification Spec).                        *)

\* The time of the latest analyzeThreat call: the stamp of the record it pushed.
AnalysedAt == arrivals[Len(arrivals)].timestamp

\* Positions of the history inside the trailing 60 s window of the latest analysis.
WindowIdx == { i \in DOMAIN threatHistory :
                 AnalysedAt - threatHistory[i].timestamp < PatternWindow }

PatternIdx(kind) == { i \in DOMAIN patterns : patterns[i].type = kind }

\* The history calculateRiskScore read in the latest tick: the one before the push.
HistoryBeforePush == SubSeq(threatHistory, 1, Len(threatHistory) - 1)

\* C2: the risk score returned by calculateRiskScore is in [0, 100], whatever
\* the number of events and their severities.
C2_RiskScoreInRange ==
    riskScore # None => riskScore[1] \in 0..100

\* The clamp acted: the weights in the window sum to more than 100, among
\* events one of which has a severity outside the four known ones.
C2_Witness ==
    /\ riskScore = Some(100)
    /\ Len(arrivals) <= HistoryCap
    /\ sumWeights(recentThreats(HistoryBeforePush, now, RiskWindow)) > 100
    /\ \E i \in DOMAIN HistoryBeforePush :
          HistoryBeforePush[i].severity \notin {"low", "medium", "high", "critical"}

\* C4: rapid_repetition is emitted iff at least 4 events of the triggering
\* event's category lie in the trailing 60 s window (not at 3), once, carrying
\* that count and that category.
SameTypeInWindow ==
    Cardinality({ i \in WindowIdx : threatHistory[i].type = lastThreat[1].type })

C4_RapidRepetitionIff ==
    lastThreat # None =>
        /\ (PatternIdx("rapid_repetition") # {}) <=> (SameTypeInWindow >= 4)
        /\ Cardinality(PatternIdx("rapid_repetition")) <= 1
        /\ \A i \in PatternIdx("rapid_repetition") :
              /\ patterns[i].count = SameTypeInWindow
              /\ patterns[i].threatType = lastThreat[1].type
              /\ patterns[i].severity = "medium"

\* Four events of the category in the window, others of it outside: it fires with count 4.
C4_Witness ==
    /\ lastThreat # None
    /\ SameTypeInWindow = 4
    /\ \E i \in DOMAIN threatHistory \ WindowIdx : threatHistory[i].type = lastThreat[1].type
    /\ \E i \in DOMAIN patterns :
          patterns[i].type = "rapid_repetition" /\ patterns[i].count = 4

\* C5: predictNextThreat returns nothing below 3 events; otherwise it tallies
\* the last 10 events only and predicts iff the highest count is at least 3,
\* naming a category of that count, with confidence min(0.8, count/10) and
\* timeframe "within 30 seconds".
Last10Idx == { i \in DOMAIN threatHistory : i > Len(threatHistory) - 10 }
CountInLast10(ty) == Cardinality({ i \in Last10Idx : threatHistory[i].type = ty })
WinningCount ==
    LET counts == { CountInLast10(threatHistory[i].type) : i \in Last10Idx }
    IN  CHOOSE c \in counts : \A d \in counts : d <= c

C5_NextThreatPrediction ==
    /\ Len(threatHistory) < 3 => nextPrediction = None
    /\ Len(threatHistory) >= 3 => ((nextPrediction # None) <=> (WinningCount >= 3))
    /\ nextPrediction # None =>
          /\ CountInLast10(nextPrediction[1].predictedType) = WinningCount
          /\ nextPrediction[1].confidence = Min(80, WinningCount * 10)
          /\ nextPrediction[1].timeframe = "within 30 seconds"

\* More than 10 events, and the winner of the last 10 is not the most frequent
\* category of the whole history.
C5_Witness ==
    /\ Len(threatHistory) > 10
    /\ nextPrediction # None
    /\ \E i \in DOMAIN threatHistory :
          Cardinality({ j \in DOMAIN threatHistory :
                          threatHistory[j].type = threatHistory[i].type })
            > Cardinality({ j \in DOMAIN threatHistory :
                          threatHistory[j].type = nextPrediction[1].predictedType })

\* C7: multiple_threat_types is emitted, with severity high, iff the events in
\* the trailing 60 s window have at least 6 distinct categories; its count is
\* that number of categories.
DistinctInWindow == Cardinality({ threatHistory[i].type : i \in WindowIdx })

C7_MultipleTypesIff ==
    lastThreat # None =>
        /\ (PatternIdx("multiple_threat_types") # {}) <=> (DistinctInWindow >= 6)
        /\ Cardinality(PatternIdx("multiple_threat_types")) <= 1
        /\ \A i \in PatternIdx("multiple_threat_types") :
              /\ patterns[i].count = DistinctInWindow
              /\ patterns[i].severity = "high"

\* Six categories in the window: it fires with count 6.
C7_Witness ==
    /\ lastThreat # None
    /\ DistinctInWindow = 6
    /\ \E i \in DOMAIN patterns :
          /\ patterns[i].type = "multiple_threat_types"
          /\ patterns[i].count = 6
          /\ patterns[i].severity = "high"

\* C8: generatePredictions returns one prediction per pattern, in pattern
\* order, each with the fixed template of its pattern (the stored predictions
\* are these, followed by the next-threat entry when there is one).
TemplateOf(pattern) ==
    CASE pattern.type = "rapid_repetition" ->
            [confidence |-> 80, timeframe |-> "5-10 minutes", severity |-> "medium"]
      [] pattern.type = "multiple_threat_types" ->
            [confidence |-> 90, timeframe |-> "immediate", severity |-> "high"]
      [] pattern.type = "high_severity_cluster" ->
            [confidence |-> 95, timeframe |-> "immediate", severity |-> "critical"]

C8_OnePredictionPerPattern ==
    /\ Len(predictions) = Len(patterns) + Len(nextPrediction)
    /\ \A i \in DOMAIN patterns :
          /\ predictions[i].confidence = TemplateOf(patterns[i]).confidence
          /\ predictions[i].timeframe = TemplateOf(patterns[i]).timeframe
          /\ predictions[i].severity = TemplateOf(patterns[i]).severity

\* All three patterns detected at once, hence three predictions in their order.
C8_Witness ==
    /\ Len(patterns) = 3
    /\ Len(predictions) >= 3
    /\ predictions[1].confidence = 80
    /\ predictions[2].confidence = 90
    /\ predictions[3].confidence = 95

\* C18: when several categories share the highest count among the last 10
\* events, predictNextThreat names the one whose first occurrence among those
\* events is the earliest.
FirstSeenInLast10(ty) ==
    CHOOSE i \in Last10Idx :
        /\ threatHistory[i].type = ty
        /\ \A j \in Last10Idx : threatHistory[j].type = ty => i <= j

WinnersInLast10 ==
    { threatHistory[i].type : i \in { j \in Last10Idx :
          CountInLast10(threatHistory[j].type) = WinningCount } }

C18_FirstSeenWinsTies ==
    nextPrediction # None =>
        /\ nextPrediction[1].predictedType \in WinnersInLast10
        /\ \A ty \in WinnersInLast10 :
              FirstSeenInLast10(nextPrediction[1].predictedType) <= FirstSeenInLast10(ty)

\* Two categories tie in the last 10 of more than 10 events; the one named
\* comes first in the last 10, though the other opened the history and is
\* the category of the newest event.
C18_Witness ==
    /\ Len(threatHistory) > 10
    /\ nextPrediction # None
    /\ Cardinality(WinnersInLast10) = 2
    /\ threatHistory[1].type # nextPrediction[1].predictedType
    /\ threatHistory[Len(threatHistory)].type # nextPrediction[1].predictedType

\* C19: calculateRiskScore returns min(100, the sum of the weights critical 10,
\* high 5, medium 2, low 1 over the events of the history younger than 300 s
\* at the time of the call), whatever lies outside that window, and leaves
\* the history as it found it.
HistoryRead ==
    SliceLast(SubSeq(arrivals, 1, Len(arrivals) - 1), HistoryCap)

RiskIdx(severity) ==
    { i \in DOMAIN HistoryRead :
        /\ AnalysedAt - HistoryRead[i].timestamp < 300000
        /\ HistoryRead[i].severity = severity }

WeightedSum ==
    10 * Cardinality(RiskIdx("critical")) + 5 * Cardinality(RiskIdx("high"))
        + 2 * Cardinality(RiskIdx("medium")) + Cardinality(RiskIdx("low"))

C19_RiskScoreIsWindowedSum ==
    riskScore # None =>
        /\ riskScore[1] = IF WeightedSum > 100 THEN 100 ELSE WeightedSum
        /\ threatHistory = SliceLast(arrivals, HistoryCap)

\* The call read a history with an event exactly 300 s old, which it left
\* out, and younger ones, which it counted; the old event is still there.
C19_Witness ==
    /\ riskScore # None
    /\ riskScore[1] > 0
    /\ \E i \in DOMAIN HistoryRead : AnalysedAt - HistoryRead[i].timestamp = 300000
    /\ \E i \in DOMAIN HistoryRead : AnalysedAt - HistoryRead[i].timestamp < 300000
    /\ riskScore[1] < sumWeights(HistoryRead)
    /\ AnalysedAt - threatHistory[1].timestamp = 300000

\* C17: high_severity_cluster is emitted, with severity critical, iff at least
\* 3 events of severity high or critical lie in the trailing 60 s window; the
\* three checks are independent: each pattern is emitted exactly when its own
\* condition holds, whatever the other two do.
HighInWindow ==
    Cardinality({ i \in WindowIdx :
                    threatHistory[i].severity \in {"high", "critical"} })

EmittedTypes == { patterns[i].type : i \in DOMAIN patterns }

C17_HighSeverityClusterIff ==
    lastThreat # None =>
        /\ (PatternIdx("high_severity_cluster") # {}) <=> (HighInWindow >= 3)
        /\ Cardinality(PatternIdx("high_severity_cluster")) <= 1
        /\ \A i \in PatternIdx("high_severity_cluster") :
              /\ patterns[i].count = HighInWindow
              /\ patterns[i].severity = "critical"
        /\ EmittedTypes =
              {k \in {"rapid_repetition"} : SameTypeInWindow >= 4}
                \cup {k \in {"multiple_threat_types"} : DistinctInWindow >= 6}
                \cup {k \in {"high_severity_cluster"} : HighInWindow >= 3}

\* Exactly three high or critical events in the window, a fourth outside it:
\* the cluster is emitted with count 3, and alone.
C17_Witness ==
    /\ lastThreat # None
    /\ HighInWindow = 3
    /\ \E i \in DOMAIN threatHistory \ WindowIdx :
          threatHistory[i].severity \in {"high", "critical"}
    /\ Len(patterns) = 1
    /\ patterns[1].type = "high_severity_cluster"
    /\ patterns[1].count = 3
    /\ patterns[1].severity = "critical"

\* Each of the other subsets of the three patterns, emitted for one event.
C17_EmitsNone == lastThreat # None /\ Len(arrivals) >= 3 /\ EmittedTypes = {}
C17_EmitsRapidOnly == EmittedTypes = {"rapid_repetition"}
C17_EmitsTypesOnly == EmittedTypes = {"multiple_threat_types"}
C17_EmitsRapidAndTypes == EmittedTypes = {"rapid_repetition", "multiple_threat_types"}
C17_EmitsRapidAndCluster == EmittedTypes = {"rapid_repetition", "high_severity_cluster"}
C17_EmitsTypesAndCluster == EmittedTypes = {"multiple_threat_types", "high_severity_cluster"}
C17_EmitsAll ==
    EmittedTypes = {"rapid_repetition", "multiple_threat_types", "high_severity_cluster"}

----------------------------------------------------------------------------
(* The application's threat list and the predictor's history over a long   *)
(* session (specification SpecCap): hooks and the demo generator append to *)
(* state.threats, the 1 s timer analyses the latest listed threat.         *)

TickInterval == 1000

FewThreats == 1
ManyTicks == 102
ManyThreats == 101
FewTicks == 0
MixedThreats == 3
MixedTicks == 3

\* A session is either long in ticks with few recorded threats, or a burst
\* of recorded threats of one kind with few ticks, or a short one in which
\* threats of two kinds arrive between the ticks.
CapScenarios ==
    { [inputs |-> {geoThreat}, fingerprints |-> {PlainFingerprint},
       maxThreats |-> FewThreats, maxTicks |-> ManyTicks],
      [inputs |-> {canvasThreat}, fingerprints |-> {PlainFingerprint},
       maxThreats |-> ManyThreats, maxTicks |-> FewTicks],
      [inputs |-> {canvasThreat, geoThreat}, fingerprints |-> {PlainFingerprint},
       maxThreats |-> MixedThreats, maxTicks |-> MixedTicks] }

\* A hook of PrivacyDetector.hookAPIs: push {type, timestamp: Date.now(), severity}.
HookAppend(threat) ==
    /\ hooksInstalled
    /\ threat \in {canvasThreat, webglThreat, audioThreat, geoThreat}
    /\ Len(threats) < scenario.maxThreats
    /\ threats' = Append(threats, Restamp(threat, now))
    /\ UNCHANGED <<now, scenario, pageVars, themeVars, tunnelLog, moduleVars, advances, analysisVars, scoreVars, displayVars, initVars>>

\* The timer callback of startDemoMode when Math.random() < 0.1:
\* FalconGuardian.simulateThreats pushes one of the five demo threats, stamped now.
SimulateThreat(threat) ==
    /\ activeIntervals # {}
    /\ threat \in {canvasThreat, webglThreat, geoThreat, audioThreat, trackerThreat}
    /\ Len(threats) < scenario.maxThreats
    /\ threats' = Append(threats, Restamp(threat, now))
    /\ UNCHANGED <<now, scenario, pageVars, themeVars, tunnelLog, moduleVars, advances, analysisVars, scoreVars, displayVars, initVars>>

\* What the four .metric-value elements show.
metricsDisplay(blocked, fingerprintCount, threatCount, activity) ==
    Some([trackers |-> blocked, fingerprints |-> fingerprintCount,
          threats |-> threatCount, activity |-> activity])

\* The text of the fourth card as updateMetrics writes it: riskScore + "/100".
riskText(risk) == [number |-> Some(risk), text |-> "/100"]

\* The rest of the timer callback once the updatePrivacyScore it awaits is
\* through, at time t: updateMetrics shows the counts and the risk score, then
\* analyzeThreats analyses the latest listed threat, if there is one.  (Every
\* recorded tracker has blocked: true; nothing writes state.fingerprints, so
\* it has no keys.)
TickTail(t) ==
    /\ riskScore' = Some(riskScoreCall(threatHistory, t).returned)
    /\ dispMetrics' = metricsDisplay(Len(trackers), 0, Len(threats),
                                   riskText(riskScore'[1]))
    /\ IF Len(threats) > 0
       THEN LET latestThreat == threats[Len(threats)]
            IN  /\ threatHistory' = pushHistory(riskScoreCall(threatHistory, t).threatHistory,
                                                latestThreat, t)
                /\ arrivals' = Append(arrivals, Restamp(latestThreat, t))
                /\ lastThreat' = Some(latestThreat)
                /\ patterns' = detectPatterns(threatHistory', latestThreat, t)
                /\ nextPrediction' = predictNextThreat(threatHistory')
                /\ predictions' = generatePredictions(patterns')
                                      \o nextThreatEntry(nextPrediction')
       ELSE /\ threatHistory' = riskScoreCall(threatHistory, t).threatHistory
            /\ UNCHANGED <<arrivals, lastThreat, patterns, predictions, nextPrediction>>

\* The timer callback of startRealtimeUpdates, one interval later, on a page
\* without navigator.permissions: calculatePermissionScore visits the four
\* permissions without waiting for anything, so the callback runs through.
\* No other updatePrivacyScore is under way.
RealtimeTick(fp) ==
    /\ realtimeTimer
    /\ ~permissionsApi
    /\ inFlight = None
    /\ advances < scenario.maxTicks
    /\ fp \in scenario.fingerprints
    /\ now' = now + TickInterval
    /\ advances' = advances + 1
    /\ ScoreWrite(withoutPermissionsApi(newInvocation(Len(trackers), protocol)), fp)
    /\ TickTail(now')
    /\ UNCHANGED <<threats, scenario, pageVars, themeVars, tunnelLog, moduleVars, trackers, protocol, permissionsApi, inFlight, initVars>>

InitCap ==
    /\ scenario \in CapScenarios
    /\ now = 0
    /\ PageWithDemoMode
    /\ threats = << >>
    /\ threatHistory = << >>
    /\ arrivals = << >>
    /\ lastThreat = None
    /\ patterns = << >>
    /\ predictions = << >>
    /\ nextPrediction = None
    /\ riskScore = None
    /\ advances = 0
    /\ ScoreAtRest
    /\ Running

NextCap ==
    \/ \E t \in scenario.inputs : HookAppend(t)
    \/ \E t \in scenario.inputs : SimulateThreat(t)
    \/ \E fp \in scenario.fingerprints : RealtimeTick(fp)

SpecCap == InitCap /\ [][NextCap]_vars

----------------------------------------------------------------------------
(* The privacy score on a running page.  Trackers are blocked between the   *)
(* ticks; on a page with navigator.permissions every one of the four        *)
(* queries of a tick settles on its own.  One updatePrivacyScore is under   *)
(* way at a time: the queries of a tick settle before the next tick.        *)

ManyTrackers == 13
FewTrackers == 2
FewScoreTicks == 1
MaxScoreTicks == 2

\* A session either blocks many trackers on a page without
\* navigator.permissions, or few on a page with it.
ScoreScenarios ==
    { [inputs |-> {}, fingerprints |-> Fingerprints,
       maxThreats |-> 0, permissionsApi |-> FALSE,
       maxTicks |-> FewScoreTicks, maxTrackers |-> ManyTrackers],
      [inputs |-> {}, fingerprints |-> Fingerprints,
       maxThreats |-> 0, permissionsApi |-> TRUE,
       maxTicks |-> MaxScoreTicks, maxTrackers |-> FewTrackers] }

\* The replaced fetch / XMLHttpRequest.open of PrivacyDetector.monitorNetwork
\* called with the URL of a tracker: push {url, blocked: true, timestamp}.
\* (The timestamp is never read; it is left out.)
TrackerBlocked(url) ==
    /\ hooksInstalled
    /\ Len(trackers) < scenario.maxTrackers
    /\ trackers' = Append(trackers, [url |-> url, blocked |-> TRUE])
    /\ UNCHANGED <<now, threats, scenario, pageVars, themeVars, tunnelLog, moduleVars, advances, analysisVars, privacyScore,
                   protocol, permissionsApi, fingerprint, inFlight, lastUpdate, uniqLog,
                   displayVars, initVars>>

\* The timer callback of startRealtimeUpdates, one interval later, on a page
\* with navigator.permissions: updatePrivacyScore reads the tracker count and
\* the protocol, and calculatePermissionScore waits for its first query.
TickFires ==
    /\ realtimeTimer
    /\ permissionsApi
    /\ inFlight = None
    /\ advances < scenario.maxTicks
    /\ now' = now + TickInterval
    /\ advances' = advances + 1
    /\ inFlight' = Some([newInvocation(Len(trackers), protocol) EXCEPT !.caller = "tick"])
    /\ UNCHANGED <<threats, scenario, pageVars, themeVars, tunnelLog, moduleVars, analysisVars, trackers, privacyScore, protocol,
                   permissionsApi, fingerprint, lastUpdate, uniqLog, displayVars, initVars>>

\* The query calculatePermissionScore is waiting for settles; the loop goes on
\* to the next permission and waits again, if there is one.
QueryResolves(outcome) ==
    /\ inFlight # None
    /\ inFlight[1].next <= Len(Permissions)
    /\ inFlight' = Some(afterQuery(inFlight[1], outcome))
    /\ UNCHANGED <<now, threats, scenario, pageVars, themeVars, tunnelLog, moduleVars, advances, analysisVars, trackers,
                   privacyScore, protocol, permissionsApi, fingerprint, lastUpdate, uniqLog,
                   displayVars, initVars>>

\* calculatePermissionScore has returned: updatePrivacyScore adds the
\* fingerprint factor, clamps and shows the score.  Its caller goes on: the
\* timer callback with the rest of the tick, init (through startMonitoring)
\* with initializeUI.
FinishUpdate(fp) ==
    /\ inFlight # None
    /\ inFlight[1].next > Len(Permissions)
    /\ fp \in scenario.fingerprints
    /\ ScoreWrite(inFlight[1], fp)
    /\ inFlight' = None
    /\ IF inFlight[1].caller = "tick"
       THEN /\ TickTail(now)
            /\ UNCHANGED initVars
       ELSE /\ initPc' = "ui"
            /\ UNCHANGED <<analysisVars, dispMetrics, mode, modules, hooksInstalled,
                           realtimeTimer, basicTimer, initError>>
    /\ UNCHANGED <<now, threats, scenario, pageVars, themeVars, tunnelLog, moduleVars, advances, trackers, protocol, permissionsApi>>

TrackerUrls == {"https://www.google-analytics.com/collect"}

InitScore ==
    /\ scenario \in ScoreScenarios
    /\ now = 0
    /\ PageAtRest
    /\ threats = << >>
    /\ threatHistory = << >>
    /\ arrivals = << >>
    /\ lastThreat = None
    /\ patterns = << >>
    /\ predictions = << >>
    /\ nextPrediction = None
    /\ riskScore = None
    /\ advances = 0
    /\ \E proto \in {"https:", "http:"}, fp \in scenario.fingerprints :
           ScoreAfterStart(proto, scenario.permissionsApi, fp)
    /\ Running

NextScore ==
    \/ \E url \in TrackerUrls : TrackerBlocked(url)
    \/ \E fp \in scenario.fingerprints : RealtimeTick(fp)
    \/ TickFires
    \/ \E outcome \in QueryOutcomes : QueryResolves(outcome)
    \/ \E fp \in scenario.fingerprints : FinishUpdate(fp)

SpecScore == InitScore /\ [][NextScore]_vars

\* C3: after every completed updatePrivacyScore, state.privacyScore lies in
\* [0, 100]: it is 0 when 100 plus the factors is negative, 100 when that sum
\* is above 100, and the sum itself otherwise.
C3_PrivacyScoreInRange ==
    /\ privacyScore \in 0..100
    /\ lastUpdate # None =>
           privacyScore = (IF lastUpdate[1].raw < 0 THEN 0
                           ELSE IF lastUpdate[1].raw > 100 THEN 100
                           ELSE lastUpdate[1].raw)

\* A tick has computed a negative sum (many trackers, insecure transport, a
\* rare fingerprint) and stored 0.
C3_Witness ==
    /\ advances > 0
    /\ lastUpdate # None
    /\ lastUpdate[1].raw < 0
    /\ Len(trackers) > 10
    /\ protocol = "http:"
    /\ privacyScore = 0

\* C10: in calculatePermissionScore a query that throws or rejects, or an
\* absent permissions API, counts as not granted and does not end the loop:
\* the permissions are visited in order, all four by the time the function
\* returns, and the result is -5 times the number of queries that resolved
\* with state granted.
C10_PermissionBatchNotAborted ==
    /\ inFlight # None =>
           /\ inFlight[1].visited = SubSeq(Permissions, 1, inFlight[1].next - 1)
           /\ inFlight[1].score = (0 - 5) * inFlight[1].granted
    /\ lastUpdate # None =>
           /\ lastUpdate[1].visited = Permissions
           /\ lastUpdate[1].permissions = (0 - 5) * lastUpdate[1].granted
           /\ (~permissionsApi => lastUpdate[1].permissions = 0)

\* An updatePrivacyScore has completed in which two queries threw and the
\* two others were granted: all four were visited and the result is -10.
C10_Witness ==
    /\ lastUpdate # None
    /\ lastUpdate[1].failed = 2
    /\ lastUpdate[1].granted = 2
    /\ lastUpdate[1].permissions = 0 - 10
    /\ lastUpdate[1].visited = Permissions

ScoreByFormula ==
    100 - 5 * lastUpdate[1].trackerCount
        + (IF protocol = "https:" THEN 10 ELSE 0 - 20)
        - 5 * lastUpdate[1].granted
        - (IF uniquenessCall[fingerprint[1]].value > 8000 THEN 20 ELSE 0)

C20_PrivacyScoreFormula ==
    /\ inFlight # None => inFlight[1].trackerCount <= Len(trackers)
    /\ lastUpdate # None =>
           /\ lastUpdate[1].trackerCount <= Len(trackers)
           /\ lastUpdate[1].granted \in 0..4
           /\ privacyScore = (IF ScoreByFormula < 0 THEN 0
                              ELSE IF ScoreByFormula > 100 THEN 100
                              ELSE ScoreByFormula)

\* A tick on an https page with one tracker on record, two permissions
\* granted and a fingerprint of uniqueness above 0.8: 100 - 5 + 10 - 10 - 20.
C20_Witness ==
    /\ advances > 0
    /\ inFlight = None
    /\ lastUpdate # None
    /\ lastUpdate[1].trackerCount = 1
    /\ lastUpdate[1].granted = 2
    /\ protocol = "https:"
    /\ fingerprint = Some(RareFingerprint)
    /\ privacyScore = 75

----------------------------------------------------------------------------
(* FalconGuardian.init (src/js/core.js), from the constructor on.           *)

\* The statements of init's try block that construct or initialise a module,
\* in order.
InitSteps ==
    << "new PrivacyDetector", "new Visualizer", "new Predictor", "new Shield",
       "new QuantumEngine", "predictor.init", "quantum.init" >>

ConstructOrInitialise == {InitSteps[i] : i \in 1..Len(InitSteps)}

\* The module each of the first five steps stores in this.modules.
ModuleOfStep == << "detector", "visualizer", "predictor", "shield", "quantum" >>

StepIndex(step) == CHOOSE i \in 1..Len(InitSteps) : InitSteps[i] = step

\* this.modules when the given step throws.
modulesBefore(step) ==
    {ModuleOfStep[i] : i \in 1..Min(StepIndex(step) - 1, Len(ModuleOfStep))}

\* What updateBasicMetrics writes: '0', '0', '0', 'Normal' and '100', 'Excellent'.
BasicMetrics == metricsDisplay(0, 0, 0, [number |-> None, text |-> "Normal"])
BasicScore == Some([value |-> 100, label |-> "Excellent"])

\* A variant whose catch block throws the error on: nothing is set up and the
\* promise init returned is rejected.
onInitErrorRethrowing(error) ==
    [initPc |-> "rejected", mode |-> mode, basicTimer |-> basicTimer,
     dispMetrics |-> dispMetrics, dispScore |-> dispScore]

\* The catch block of init: createFallbackUI (which calls updateBasicMetrics),
\* startBasicUpdates, and init returns.
onInitError(error) ==
    [initPc |-> "done", mode |-> "fallback", basicTimer |-> TRUE,
     dispMetrics |-> BasicMetrics, dispScore |-> BasicScore]

\* What init's catch block leaves in the variables it writes.
Caught(error) ==
    /\ initError' = error
    /\ initPc' = onInitError(error).initPc
    /\ mode' = onInitError(error).mode
    /\ basicTimer' = onInitError(error).basicTimer
    /\ dispMetrics' = onInitError(error).dispMetrics
    /\ dispScore' = onInitError(error).dispScore

BasicInterval == 2000
MaxInitTicks == 1
OneTracker == 1

InitScenarios ==
    { [inputs |-> {}, fingerprints |-> Fingerprints,
       maxThreats |-> 0, permissionsApi |-> api,
       maxTicks |-> MaxInitTicks, maxTrackers |-> OneTracker] : api \in BOOLEAN }

\* new FalconGuardian() up to the first point where init waits.  Either one of
\* the seven steps throws and init's catch block runs; or all succeed and
\* startMonitoring calls detector.startDetection, which throws into
\* startMonitoring's own catch (the hooks may or may not be in place by then),
\* or returns.
ConstructAndInit(outcome, hooked) ==
    /\ initPc = "new"
    /\ outcome \in ConstructOrInitialise \cup {"startDetection", "none"}
    /\ hooked \in BOOLEAN
    /\ IF outcome \in ConstructOrInitialise
       THEN /\ hooked = FALSE
            /\ modules' = modulesBefore(outcome)
            /\ Caught(outcome)
            /\ UNCHANGED <<hooksInstalled, realtimeTimer>>
       ELSE /\ modules' = AllModules
            /\ hooked = TRUE \/ outcome = "startDetection"
            /\ hooksInstalled' = hooked
            /\ initError' = (IF outcome = "none" THEN initError ELSE outcome)
            /\ initPc' = "monitoring"
            /\ UNCHANGED <<mode, basicTimer, realtimeTimer, displayVars>>
    /\ UNCHANGED <<now, threats, scenario, pageVars, themeVars, tunnelLog, moduleVars, advances, analysisVars, scoreVars>>

\* startMonitoring goes on after its first await.  If startDetection threw
\* there is nothing left to do; otherwise shield.activateProtection runs and
\* either throws into startMonitoring's catch, or updatePrivacyScore starts:
\* it runs through on a page without navigator.permissions and waits for its
\* first query on a page with it.
MonitoringResumes(outcome, fp) ==
    /\ initPc = "monitoring"
    /\ outcome \in {"activateProtection", "none"}
    /\ fp \in scenario.fingerprints
    /\ IF initError = "startDetection"
       THEN /\ initPc' = "ui"
            /\ UNCHANGED <<scoreVars, dispScore, initError>>
       ELSE IF outcome = "activateProtection"
       THEN /\ initPc' = "ui"
            /\ initError' = outcome
            /\ UNCHANGED <<scoreVars, dispScore>>
       ELSE IF permissionsApi
       THEN /\ initPc' = "scoring"
            /\ inFlight' = Some(newInvocation(Len(trackers), protocol))
            /\ UNCHANGED <<trackers, privacyScore, protocol, permissionsApi, fingerprint,
                           lastUpdate, uniqLog, dispScore, initError>>
       ELSE /\ initPc' = "ui"
            /\ ScoreWrite(withoutPermissionsApi(newInvocation(Len(trackers), protocol)), fp)
            /\ UNCHANGED <<trackers, protocol, permissionsApi, inFlight, initError>>
    /\ UNCHANGED <<now, threats, scenario, pageVars, themeVars, tunnelLog, moduleVars, advances, analysisVars, dispMetrics, mode,
                   modules, hooksInstalled, realtimeTimer, basicTimer>>

\* The rest of init's try block: initializeUI (an error in it stays in its
\* own catch), startRealtimeUpdates, updateQuantumScore, which either returns
\* or throws into init's catch block with the 1 s timer already set.
CompleteInit(outcome) ==
    /\ initPc = "ui"
    /\ outcome \in {"initializeUI", "updateQuantumScore", "none"}
    /\ realtimeTimer' = TRUE
    /\ IF outcome = "updateQuantumScore"
       THEN Caught(outcome)
       ELSE /\ initPc' = "done"
            /\ mode' = "normal"
            /\ initError' = (IF outcome = "none" THEN initError ELSE outcome)
            /\ UNCHANGED <<basicTimer, displayVars>>
    /\ UNCHANGED <<now, threats, scenario, pageVars, themeVars, tunnelLog, moduleVars, advances, analysisVars, scoreVars, modules,
                   hooksInstalled>>

\* The timer callback of startBasicUpdates, one interval later: updateBasicMetrics.
BasicUpdateTick ==
    /\ basicTimer
    /\ advances < scenario.maxTicks
    /\ now' = now + BasicInterval
    /\ advances' = advances + 1
    /\ dispMetrics' = BasicMetrics
    /\ dispScore' = BasicScore
    /\ UNCHANGED <<threats, scenario, pageVars, themeVars, tunnelLog, moduleVars, analysisVars, scoreVars, initVars>>

\* The constructor: the state object as written there, no module, init not
\* started, the page's elements as the markup has them.
InitStart ==
    /\ scenario \in InitScenarios
    /\ now = 0
    /\ PageAtRest
    /\ threats = << >>
    /\ threatHistory = << >>
    /\ arrivals = << >>
    /\ lastThreat = None
    /\ patterns = << >>
    /\ predictions = << >>
    /\ nextPrediction = None
    /\ riskScore = None
    /\ advances = 0
    /\ trackers = << >>
    /\ privacyScore = 100
    /\ protocol \in {"https:", "http:"}
    /\ permissionsApi = scenario.permissionsApi
    /\ fingerprint = None
    /\ inFlight = None
    /\ lastUpdate = None
    /\ uniqLog = {}
    /\ dispScore = None
    /\ dispMetrics = None
    /\ initPc = "new"
    /\ mode = "starting"
    /\ modules = {}
    /\ hooksInstalled = FALSE
    /\ realtimeTimer = FALSE
    /\ basicTimer = FALSE
    /\ initError = "none"

NextInit ==
    \/ \E outcome \in ConstructOrInitialise \cup {"startDetection", "none"},
          hooked \in BOOLEAN : ConstructAndInit(outcome, hooked)
    \/ \E outcome \in {"activateProtection", "none"}, fp \in scenario.fingerprints :
          MonitoringResumes(outcome, fp)
    \/ \E outcome \in {"initializeUI", "updateQuantumScore", "none"} : CompleteInit(outcome)
    \/ BasicUpdateTick
    \/ \E url \in TrackerUrls : TrackerBlocked(url)
    \/ \E fp \in scenario.fingerprints : RealtimeTick(fp)
    \/ TickFires
    \/ \E outcome \in QueryOutcomes : QueryResolves(outcome)
    \/ \E fp \in scenario.fingerprints : FinishUpdate(fp)

SpecInit == InitStart /\ [][NextInit]_vars

\* C9: if a core module fails to construct or initialise during init, the
\* error does not leave init: init returns with the system in fallback mode
\* and the 2 s basic timer set, the 1 s real-time timer is never set, and the
\* metric cards and the score read 0, 0, 0, 'Normal' and 100.
C9_ModuleFailureFallsBack ==
    initError \in ConstructOrInitialise =>
        /\ initPc = "done"
        /\ mode = "fallback"
        /\ basicTimer
        /\ ~realtimeTimer
        /\ inFlight = None
        /\ dispMetrics = BasicMetrics
        /\ dispScore = BasicScore

\* quantum.init threw with all five modules constructed; the page is in
\* fallback mode and the basic timer has fired since.
C9_Witness ==
    /\ initError = "quantum.init"
    /\ modules = AllModules
    /\ mode = "fallback"
    /\ advances > 0
    /\ dispMetrics = BasicMetrics

----------------------------------------------------------------------------
(* PrivacyDetector.monitorNetwork and isTrackerDomain (src/js/detector.js). *)
(* A string is its sequence of UTF-16 code units, as above.                 *)

\* The index of the first element of s at or after from that is in set
\* (Len(s) + 1 if there is none), and of the last one (0 if there is none).
firstIn(s, set, from) ==
    LET hits == {i \in from..Len(s) : s[i] \in set}
    IN  IF hits = {} THEN Len(s) + 1 ELSE CHOOSE i \in hits : \A j \in hits : i <= j

firstNotIn(s, set, from) ==
    LET hits == {i \in from..Len(s) : s[i] \notin set}
    IN  IF hits = {} THEN Len(s) + 1 ELSE CHOOSE i \in hits : \A j \in hits : i <= j

lastIn(s, set) ==
    LET hits == {i \in 1..Len(s) : s[i] \in set}
    IN  IF hits = {} THEN 0 ELSE CHOOSE i \in hits : \A j \in hits : i >= j

\* ASCII lower case of a code unit and of a string.
lowerUnit(c) == IF c \in 65..90 THEN c + 32 ELSE c
toLowerCase(str) == [i \in 1..Len(str) |-> lowerUnit(str[i])]

\* A variant that matches whole labels only: the string is the suffix, or
\* ends with "." followed by the suffix.
endsWithAtLabelBoundary(str, suffix) ==
    /\ Len(str) >= Len(suffix)
    /\ SubSeq(str, Len(str) - Len(suffix) + 1, Len(str)) = suffix
    /\ Len(str) > Len(suffix) => str[Len(str) - Len(suffix)] = 46

\* String.prototype.endsWith
endsWith(str, suffix) ==
    /\ Len(str) >= Len(suffix)
    /\ SubSeq(str, Len(str) - Len(suffix) + 1, Len(str)) = suffix

\* The schemes whose URLs must have a host: http, https, ws, wss, ftp.
SpecialSchemes ==
    { <<104, 116, 116, 112>>, <<104, 116, 116, 112, 115>>, <<119, 115>>, <<119, 115, 115>>, <<102, 116, 112>> }

\* The host of an authority (the text between the slashes after the scheme
\* and the next / \ ? #): what follows the last @, up to the port's colon.
\* A port that is not a number makes the URL invalid.
hostOf(authority) ==
    LET at == lastIn(authority, {64})
        hostport == SubSeq(authority, at + 1, Len(authority))
        colon == firstIn(hostport, {58}, 1)
        port == SubSeq(hostport, colon + 1, Len(hostport))
    IN  IF \E i \in 1..Len(port) : port[i] \notin 48..57 THEN None
        ELSE Some(SubSeq(hostport, 1, colon - 1))

\* new URL(text).hostname with no base URL, for text without leading or
\* trailing blanks and hosts that are ASCII names: the hostname, or no value
\* when the constructor throws TypeError.  A text without a scheme (a relative
\* reference) is invalid; so is an http(s) URL without a host.
URLhostname(text) ==
    LET colon == firstIn(text, {58}, 1)
        scheme == toLowerCase(SubSeq(text, 1, colon - 1))
        schemeUnits == (97..122) \cup (48..57) \cup {43, 45, 46}
        hasScheme == /\ colon \in 2..Len(text)
                     /\ scheme[1] \in 97..122
                     /\ \A i \in 1..Len(scheme) : scheme[i] \in schemeUnits
    IN  IF ~hasScheme THEN None
        ELSE IF scheme \in SpecialSchemes
        THEN LET start == firstNotIn(text, {47, 92}, colon + 1)
                 stop == firstIn(text, {47, 92, 63, 35}, start)
                 host == hostOf(SubSeq(text, start, stop - 1))
             IN  IF host = None \/ host = Some(<< >>) THEN None
                 ELSE Some(toLowerCase(host[1]))
        ELSE IF SubSeq(text, colon + 1, colon + 2) = <<47, 47>>
        THEN LET stop == firstIn(text, {47, 63, 35}, colon + 3)
             IN  hostOf(SubSeq(text, colon + 3, stop - 1))
        ELSE Some(<< >>)

\* What the URL constructor makes of its argument before parsing: a string
\* is taken as it is, a URL object gives its href, a Request object gives
\* "[object Request]", undefined gives "undefined"; a Symbol cannot be
\* converted and the constructor throws.
stringOf(arg) ==
    CASE arg.kind = "string" -> Some(arg.url)
      [] arg.kind = "URL" -> Some(arg.url)
      [] arg.kind = "Request" -> Some(<<91, 111, 98, 106, 101, 99, 116, 32, 82, 101, 113, 117, 101, 115, 116, 93>>)
      [] arg.kind = "undefined" -> Some(<<117, 110, 100, 101, 102, 105, 110, 101, 100>>)
      [] arg.kind = "Symbol" -> None

trackerDomains ==
    <<
       <<103, 111, 111, 103, 108, 101, 45, 97, 110, 97, 108, 121, 116, 105, 99, 115, 46, 99, 111, 109>>,  \* google-analytics.com
       <<103, 111, 111, 103, 108, 101, 116, 97, 103, 109, 97, 110, 97, 103, 101, 114, 46, 99, 111, 109>>,  \* googletagmanager.com
       <<102, 97, 99, 101, 98, 111, 111, 107, 46, 99, 111, 109>>,  \* facebook.com
       <<100, 111, 117, 98, 108, 101, 99, 108, 105, 99, 107, 46, 110, 101, 116>>,  \* doubleclick.net
       <<115, 99, 111, 114, 101, 99, 97, 114, 100, 114, 101, 115, 101, 97, 114, 99, 104, 46, 99, 111, 109>>,  \* scorecardresearch.com
       <<113, 117, 97, 110, 116, 115, 101, 114, 118, 101, 46, 99, 111, 109>>,  \* quantserve.com
       <<97, 100, 115, 121, 115, 116, 101, 109, 46, 99, 111, 109>>,  \* adsystem.com
       <<97, 109, 97, 122, 111, 110, 45, 97, 100, 115, 121, 115, 116, 101, 109, 46, 99, 111, 109>>,  \* amazon-adsystem.com
       <<104, 111, 116, 106, 97, 114, 46, 99, 111, 109>>,  \* hotjar.com
       <<109, 105, 120, 112, 97, 110, 101, 108, 46, 99, 111, 109>>,  \* mixpanel.com
       <<97, 109, 112, 108, 105, 116, 117, 100, 101, 46, 99, 111, 109>>,  \* amplitude.com
       <<115, 101, 103, 109, 101, 110, 116, 46, 99, 111, 109>>,  \* segment.com
       <<104, 101, 97, 112, 46, 105, 111>>,  \* heap.io
       <<102, 117, 108, 108, 115, 116, 111, 114, 121, 46, 99, 111, 109>>,  \* fullstory.com
       <<99, 108, 97, 114, 105, 116, 121, 46, 109, 115>>,  \* clarity.ms
       <<109, 111, 117, 115, 101, 102, 108, 111, 119, 46, 99, 111, 109>>,  \* mouseflow.com
       <<99, 114, 97, 122, 121, 101, 103, 103, 46, 99, 111, 109>>,  \* crazyegg.com
       <<111, 112, 116, 105, 109, 105, 122, 101, 108, 121, 46, 99, 111, 109>>,  \* optimizely.com
       <<118, 119, 111, 46, 99, 111, 109>>,  \* vwo.com
       <<97, 98, 116, 97, 115, 116, 121, 46, 99, 111, 109>>,  \* abtasty.com
       <<99, 114, 105, 116, 101, 111, 46, 99, 111, 109>>,  \* criteo.com
       <<111, 117, 116, 98, 114, 97, 105, 110, 46, 99, 111, 109>>,  \* outbrain.com
       <<116, 97, 98, 111, 111, 108, 97, 46, 99, 111, 109>>,  \* taboola.com
       <<112, 117, 98, 109, 97, 116, 105, 99, 46, 99, 111, 109>>,  \* pubmatic.com
       <<114, 117, 98, 105, 99, 111, 110, 112, 114, 111, 106, 101, 99, 116, 46, 99, 111, 109>>,  \* rubiconproject.com
       <<111, 112, 101, 110, 120, 46, 110, 101, 116>>,  \* openx.net
       <<97, 100, 114, 111, 108, 108, 46, 99, 111, 109>>,  \* adroll.com
       <<121, 97, 110, 100, 101, 120, 46, 114, 117>>,  \* yandex.ru
       <<98, 97, 105, 100, 117, 46, 99, 111, 109>>,  \* baidu.com
       <<108, 105, 118, 101, 46, 99, 111, 109>>  \* live.com
    >>

\* new URL(url).hostname inside the try of isTrackerDomain.
hostnameOf(arg) ==
    IF stringOf(arg) = None THEN None ELSE URLhostname(stringOf(arg)[1])

\* try { trackerDomains.some(domain => hostname.endsWith(domain)) }
\* catch (e) { return false }
isTrackerDomain(arg) ==
    /\ hostnameOf(arg) # None
    /\ \E i \in 1..Len(trackerDomains) : endsWith(hostnameOf(arg)[1], trackerDomains[i])

\* What the platform's own fetch and XMLHttpRequest.prototype.open do when
\* applied to a receiver: fetch needs the window, open needs the
\* XMLHttpRequest it is to open; on anything else they fail with TypeError
\* and no request is made.
originalOutcome(api, receiver) ==
    IF (api = "fetch" /\ receiver = "window") \/ (api = "open" /\ receiver = "xhr")
    THEN "performed"
    ELSE "TypeError"

\* A variant that records a matching call and lets it through all the same.
monitoredCallRecordingOnly(api, calledOn, arg) ==
    [api |-> api, calledOn |-> calledOn, arg |-> arg, tracker |-> isTrackerDomain(arg),
     pushed |-> IF isTrackerDomain(arg) THEN Some([url |-> arg, blocked |-> FALSE])
                ELSE None,
     forwarded |-> Some("detector"),
     outcome |-> originalOutcome(api, "detector")]

\* One call of the function monitorNetwork puts in place of window.fetch
\* (api "fetch") or XMLHttpRequest.prototype.open (api "open"), made by the
\* page on calledOn with the URL argument arg.  Both replacements are bound
\* to the detector, so this is the detector in this.isTrackerDomain(url) and
\* in originalFetch.apply(this, args) / originalOpen.apply(this, ...).
\* window.falconGuardian is assigned in the same run that installs the hooks,
\* so a matching call finds it.
monitoredCall(api, calledOn, arg) ==
    IF isTrackerDomain(arg)
    THEN [api |-> api, calledOn |-> calledOn, arg |-> arg, tracker |-> TRUE,
          pushed |-> Some([url |-> arg, blocked |-> TRUE]),
          forwarded |-> None, outcome |-> "blocked"]
    ELSE [api |-> api, calledOn |-> calledOn, arg |-> arg, tracker |-> FALSE,
          pushed |-> None,
          forwarded |-> Some("detector"),
          outcome |-> originalOutcome(api, "detector")]

\* The URL arguments of the modelled sessions.
TrackerUrl == [kind |-> "string", url |-> <<104, 116, 116, 112, 115, 58, 47, 47, 119, 119, 119, 46, 103, 111, 111, 103, 108, 101, 45, 97, 110, 97, 108, 121, 116, 105, 99, 115, 46, 99, 111, 109, 47, 99, 111, 108, 108, 101, 99, 116>>]
    \* https://www.google-analytics.com/collect
PlainUrl == [kind |-> "string", url |-> <<104, 116, 116, 112, 115, 58, 47, 47, 101, 120, 97, 109, 112, 108, 101, 46, 111, 114, 103, 47, 100, 97, 116, 97>>]
    \* https://example.org/data
UpperCaseTrackerUrl == [kind |-> "string", url |-> <<72, 84, 84, 80, 83, 58, 47, 47, 67, 68, 78, 46, 72, 79, 84, 74, 65, 82, 46, 67, 79, 77, 58, 52, 52, 51, 47, 120>>]
    \* HTTPS://CDN.HOTJAR.COM:443/x
RelativeUrl == [kind |-> "string", url |-> <<47, 97, 112, 105, 47, 100, 97, 116, 97, 63, 110, 101, 120, 116, 61, 97, 58, 98>>]
    \* /api/data?next=a:b
MalformedUrl == [kind |-> "string", url |-> <<104, 116, 116, 112, 58, 47, 47>>]
    \* http://
TrackerRequestObject == [kind |-> "Request", url |-> <<104, 116, 116, 112, 115, 58, 47, 47, 100, 111, 117, 98, 108, 101, 99, 108, 105, 99, 107, 46, 110, 101, 116, 47, 97, 100>>]
    \* new Request('https://doubleclick.net/ad')
TrackerUrlObject == [kind |-> "URL", url |-> <<104, 116, 116, 112, 115, 58, 47, 47, 100, 111, 117, 98, 108, 101, 99, 108, 105, 99, 107, 46, 110, 101, 116, 47, 97, 100>>]
    \* new URL('https://doubleclick.net/ad')
SubdomainUrl == [kind |-> "string", url |-> <<104, 116, 116, 112, 115, 58, 47, 47, 115, 117, 98, 46, 103, 111, 111, 103, 108, 101, 45, 97, 110, 97, 108, 121, 116, 105, 99, 115, 46, 99, 111, 109, 47, 120>>]
    \* https://sub.google-analytics.com/x
LookalikeUrl == [kind |-> "string", url |-> <<104, 116, 116, 112, 115, 58, 47, 47, 101, 118, 105, 108, 103, 111, 111, 103, 108, 101, 45, 97, 110, 97, 108, 121, 116, 105, 99, 115, 46, 99, 111, 109, 47, 120>>]
    \* https://evilgoogle-analytics.com/x
PrefixHostUrl == [kind |-> "string", url |-> <<104, 116, 116, 112, 115, 58, 47, 47, 103, 111, 111, 103, 108, 101, 45, 97, 110, 97, 108, 121, 116, 105, 99, 115, 46, 99, 111, 109, 46, 101, 120, 97, 109, 112, 108, 101, 46, 111, 114, 103, 47>>]
    \* https://google-analytics.com.example.org/
PathMentionUrl == [kind |-> "string", url |-> <<104, 116, 116, 112, 115, 58, 47, 47, 101, 120, 97, 109, 112, 108, 101, 46, 111, 114, 103, 47, 103, 111, 111, 103, 108, 101, 45, 97, 110, 97, 108, 121, 116, 105, 99, 115, 46, 99, 111, 109>>]
    \* https://example.org/google-analytics.com
UserinfoUrl == [kind |-> "string", url |-> <<104, 116, 116, 112, 115, 58, 47, 47, 103, 111, 111, 103, 108, 101, 45, 97, 110, 97, 108, 121, 116, 105, 99, 115, 46, 99, 111, 109, 64, 101, 120, 97, 109, 112, 108, 101, 46, 111, 114, 103, 47>>]
    \* https://google-analytics.com@example.org/
TrailingDotUrl == [kind |-> "string", url |-> <<104, 116, 116, 112, 115, 58, 47, 47, 103, 111, 111, 103, 108, 101, 45, 97, 110, 97, 108, 121, 116, 105, 99, 115, 46, 99, 111, 109, 46, 47, 99, 111, 108, 108, 101, 99, 116>>]
    \* https://google-analytics.com./collect
NoArgument == [kind |-> "undefined", url |-> << >>]
SymbolArgument == [kind |-> "Symbol", url |-> << >>]

NetArgs ==
    { TrackerUrl, PlainUrl, UpperCaseTrackerUrl, RelativeUrl, MalformedUrl,
      TrackerRequestObject, TrackerUrlObject, NoArgument, SymbolArgument,
      SubdomainUrl, LookalikeUrl, PrefixHostUrl, PathMentionUrl, UserinfoUrl,
      TrailingDotUrl }

MaxRequests == 2

NetScenario ==
    [inputs |-> {}, fingerprints |-> Fingerprints, maxThreats |-> 0,
     permissionsApi |-> FALSE, maxTicks |-> 0, maxTrackers |-> MaxRequests,
     maxRequests |-> MaxRequests]

\* The page calls fetch(arg, ...) or xhr.open(method, arg, ...) after the
\* detector has replaced them.
NetworkCall(api, arg) ==
    /\ hooksInstalled
    /\ api \in {"fetch", "open"}
    /\ Len(netLog) < scenario.maxRequests
    /\ LET call == monitoredCall(api, IF api = "fetch" THEN "window" ELSE "xhr", arg)
       IN  /\ netLog' = Append(netLog, call)
           /\ trackers' = trackers \o call.pushed
    /\ UNCHANGED <<now, threats, scenario, advances, analysisVars, privacyScore,
                   protocol, permissionsApi, fingerprint, inFlight, lastUpdate, uniqLog,
                   displayVars, initVars, demoInterval, activeIntervals, nextTimerId,
                   settingLog, themeVars, tunnelLog, moduleVars>>

InitNet ==
    /\ scenario = NetScenario
    /\ now = 0
    /\ PageAtRest
    /\ threats = << >>
    /\ threatHistory = << >>
    /\ arrivals = << >>
    /\ lastThreat = None
    /\ patterns = << >>
    /\ predictions = << >>
    /\ nextPrediction = None
    /\ riskScore = None
    /\ advances = 0
    /\ ScoreAtRest
    /\ Running

NextNet ==
    \E api \in {"fetch", "open"}, arg \in NetArgs : NetworkCall(api, arg)

SpecNet == InitNet /\ [][NextNet]_vars

\* The arguments new URL() cannot parse.
Unparsable(arg) == hostnameOf(arg) = None

\* C11 (as stated): a call whose URL cannot be parsed is treated as not a
\* tracker: isTrackerDomain returns false without throwing, no tracker event
\* is recorded, and the request goes through to the original fetch or open.
C11_AsStated ==
    \A i \in 1..Len(netLog) :
        Unparsable(netLog[i].arg) =>
            /\ ~netLog[i].tracker
            /\ netLog[i].pushed = None
            /\ netLog[i].forwarded # None
            /\ netLog[i].outcome = "performed"

\* C11, the part that holds: a call whose URL cannot be parsed is found not
\* to be a tracker, records nothing and is handed to the original function.
C11_UnparsableIsNotATracker ==
    \A i \in 1..Len(netLog) :
        Unparsable(netLog[i].arg) =>
            /\ ~netLog[i].tracker
            /\ netLog[i].pushed = None
            /\ netLog[i].forwarded # None

\* xhr.open with a relative URL: nothing recorded, and the original open
\* applied to the detector instead of the XMLHttpRequest.
C11_Witness ==
    \E i \in 1..Len(netLog) :
        /\ netLog[i].arg = RelativeUrl
        /\ netLog[i].api = "open"
        /\ netLog[i].forwarded = Some("detector")
        /\ netLog[i].outcome = "TypeError"
        /\ trackers = << >>

\* The calls whose URL argument, as new URL reads it, has a hostname ending
\* with one of the tracker domains.
MatchingCalls == {i \in 1..Len(netLog) : isTrackerDomain(netLog[i].arg)}

\* C12: a fetch or an XHR open is recorded as a tracker event if and only if
\* its URL matches a tracker domain; a matching call is never handed to the
\* original fetch or open; state.trackers holds exactly the recorded events,
\* in order, and every one of them has blocked = true.
C12_BlockedIffMatching ==
    /\ \A i \in 1..Len(netLog) :
           /\ netLog[i].pushed # None <=> i \in MatchingCalls
           /\ i \in MatchingCalls => netLog[i].forwarded = None
           /\ i \notin MatchingCalls => netLog[i].forwarded # None
    /\ Len(trackers) = Cardinality(MatchingCalls)
    /\ \A j \in 1..Len(trackers) :
           /\ trackers[j].blocked = TRUE
           /\ \E i \in MatchingCalls : trackers[j].url = netLog[i].arg

\* A fetch of an upper-case tracker URL with a port and an open of a tracker
\* URL were both blocked and recorded.
C12_Witness ==
    /\ Len(netLog) = 2
    /\ netLog[1].api = "fetch"
    /\ netLog[1].arg = UpperCaseTrackerUrl
    /\ netLog[2].api = "open"
    /\ netLog[2].arg = TrackerUrl
    /\ Len(trackers) = 2
    /\ netLog[2].forwarded = None

----------------------------------------------------------------------------
(* Demo mode: updateSetting('demoMode', ...) and startDemoMode (core.js).   *)

\* A variant of clearInterval that, given a handle that is not set, clears
\* the interval set last.
clearIntervalOrLatest(active, handle) ==
    IF handle # None /\ handle[1] \in active
    THEN [active |-> active \ {handle[1]}, threw |-> FALSE]
    ELSE [active |-> active \ {id \in active : \A other \in active : id >= other},
          threw |-> FALSE]

\* clearInterval(handle): the interval with that handle is no longer set;
\* null, and a handle that is not set, are ignored.  It never throws.
clearInterval(active, handle) ==
    [active |-> IF handle = None THEN active ELSE active \ {handle[1]},
     threw |-> FALSE]

MaxSettingCalls == 4
FewDemoThreats == 2

DemoScenario ==
    [inputs |-> {canvasThreat, geoThreat}, fingerprints |-> Fingerprints,
     maxThreats |-> FewDemoThreats, permissionsApi |-> FALSE, maxTicks |-> 0,
     maxTrackers |-> 0, maxRequests |-> 0, maxSettingCalls |-> MaxSettingCalls]

\* updateSetting('demoMode', enabled).  Enabled: startDemoMode stores the
\* handle of a new 1 s interval in this.demoInterval, whatever was there.
\* Disabled: clearInterval(this.demoInterval); this.demoInterval is left as
\* it is.  Timer handles are not used twice.
UpdateSettingDemoMode(enabled) ==
    /\ enabled \in BOOLEAN
    /\ Len(settingLog) < scenario.maxSettingCalls
    /\ IF enabled
       THEN /\ demoInterval' = Some(nextTimerId)
            /\ activeIntervals' = activeIntervals \cup {nextTimerId}
            /\ nextTimerId' = nextTimerId + 1
            /\ settingLog' = Append(settingLog, [setting |-> "demoMode",
                                                 enabled |-> TRUE, threw |-> FALSE])
       ELSE /\ activeIntervals' = clearInterval(activeIntervals, demoInterval).active
            /\ settingLog' = Append(settingLog,
                   [setting |-> "demoMode", enabled |-> FALSE,
                    threw |-> clearInterval(activeIntervals, demoInterval).threw])
            /\ UNCHANGED <<demoInterval, nextTimerId>>
    /\ UNCHANGED <<now, threats, scenario, advances, analysisVars, scoreVars,
                   displayVars, initVars, netLog, themeVars, tunnelLog, moduleVars>>

InitDemo ==
    /\ scenario = DemoScenario
    /\ now = 0
    /\ PageAtRest
    /\ threats = << >>
    /\ threatHistory = << >>
    /\ arrivals = << >>
    /\ lastThreat = None
    /\ patterns = << >>
    /\ predictions = << >>
    /\ nextPrediction = None
    /\ riskScore = None
    /\ advances = 0
    /\ ScoreAtRest
    /\ Running

NextDemo ==
    \/ \E enabled \in BOOLEAN : UpdateSettingDemoMode(enabled)
    \/ \E t \in scenario.inputs : SimulateThreat(t)

SpecDemo == InitDemo /\ [][NextDemo]_vars

\* Everything but the record of the updateSetting calls.
appVars ==
    <<now, threats, scenario, advances, analysisVars, scoreVars, displayVars, initVars,
      netLog, demoInterval, activeIntervals, nextTimerId, themeVars, tunnelLog, moduleVars>>

\* C13: updateSetting('demoMode', false) made when the previous demo-mode
\* call was also a cancel, or when demo mode was never switched on, raises no
\* error and changes nothing in the application.
C13_CancelIsIdempotent ==
    [][ ( /\ Len(settingLog') = Len(settingLog) + 1
          /\ ~settingLog'[Len(settingLog')].enabled
          /\ settingLog = << >> \/ ~settingLog[Len(settingLog)].enabled )
        => ( /\ UNCHANGED appVars
             /\ ~settingLog'[Len(settingLog')].threw ) ]_vars

\* Demo mode was switched on twice and off twice; a generator has pushed a
\* threat and one interval is still set.
C13_Witness ==
    /\ Len(settingLog) = 4
    /\ settingLog[1].enabled /\ settingLog[2].enabled
    /\ ~settingLog[3].enabled /\ ~settingLog[4].enabled
    /\ threats # << >>
    /\ activeIntervals = {1}
    /\ demoInterval = Some(2)

----------------------------------------------------------------------------
(* The theme switcher: initializeTheme, then any selections and any changes *)
(* of the system preference                                                *)

MaxThemeCalls == 4

ThemeScenario ==
    [inputs |-> {}, fingerprints |-> Fingerprints, maxThreats |-> 0,
     permissionsApi |-> FALSE, maxTicks |-> 0, maxTrackers |-> 0, maxRequests |-> 0,
     maxThemeCalls |-> MaxThemeCalls]

currentTheme ==
    themeState(storedTheme, bodyClasses, colorScheme, onSystemThemeChange,
               mediaListeners, systemDark)

\* The 'change' listener of the themeSwitcher element: updateTheme(e.target.value).
SelectTheme(theme) ==
    /\ Len(themeLog) <= scenario.maxThemeCalls
    /\ ThemeBecomes(updateTheme(currentTheme, theme), Append(themeLog, theme))
    /\ UNCHANGED <<now, threats, scenario, advances, analysisVars, scoreVars,
                   displayVars, initVars, pageVars, tunnelLog, moduleVars>>

\* The system preference flips; every listener registered on
\* systemThemeMedia runs.
SystemThemeChanges ==
    /\ LET flipped == themeState(storedTheme, bodyClasses, colorScheme,
                                 onSystemThemeChange, mediaListeners, ~systemDark)
       IN  ThemeBecomes(IF mediaListeners > 0
                        THEN systemThemeChanged(flipped, ~systemDark)
                        ELSE flipped,
                        themeLog)
    /\ UNCHANGED <<now, threats, scenario, advances, analysisVars, scoreVars,
                   displayVars, initVars, pageVars, tunnelLog, moduleVars>>

InitTheme ==
    /\ scenario = ThemeScenario
    /\ now = 0
    /\ netLog = << >>
    /\ demoInterval = None
    /\ activeIntervals = {}
    /\ nextTimerId = 1
    /\ settingLog = << >>
    /\ tunnelLog = << >>
    /\ ModulesAtRest
    /\ \E saved \in {None} \cup {Some(t) : t \in ThemeOptions}, dark \in BOOLEAN :
           ThemeIs(initializeTheme(freshTheme(saved, {}, dark)),
                   << savedThemeOr(saved) >>)
    /\ threats = << >>
    /\ threatHistory = << >>
    /\ arrivals = << >>
    /\ lastThreat = None
    /\ patterns = << >>
    /\ predictions = << >>
    /\ nextPrediction = None
    /\ riskScore = None
    /\ advances = 0
    /\ ScoreAtRest
    /\ Running

NextTheme ==
    \/ \E theme \in ThemeOptions : SelectTheme(theme)
    \/ SystemThemeChanges

SpecTheme == InitTheme /\ [][NextTheme]_vars

\* C15: after any updateTheme calls with auto, light or dark, the stored
\* 'falcon-theme' is the option selected last, the body carries exactly one
\* of light-theme and dark-theme, and the system colour-scheme listener is
\* registered, once, exactly when that option is auto.
C15_ThemeKeptConsistent ==
    themeLog # << >> =>
        LET last == themeLog[Len(themeLog)]
        IN  /\ storedTheme = Some(last)
            /\ Cardinality(bodyClasses \cap ThemeClasses) = 1
            /\ mediaListeners <= 1
            /\ (mediaListeners = 1) <=> (last = "auto")
            /\ onSystemThemeChange <=> (last = "auto")

\* auto was selected twice in a row after dark, on a system that prefers
\* dark: still one listener, and the stored option is auto, not dark.
C15_Witness ==
    /\ Len(themeLog) >= 4
    /\ themeLog[Len(themeLog)] = "auto"
    /\ themeLog[Len(themeLog) - 1] = "auto"
    /\ themeLog[Len(themeLog) - 2] = "dark"
    /\ systemDark
    /\ bodyClasses = {"dark-theme"}
    /\ mediaListeners = 1
    /\ storedTheme = Some("auto")

----------------------------------------------------------------------------
(* QuantumEngine.quantumTunneling (src/js/quantum.js)                      *)

\* Numbers are held in thousandths: 1.0 is 1000.  A Number is an optional
\* integer, the empty one being NaN.
Scale == 1000
NaN == << >>
num(v) == << v >>

\* a - b, a * b, a / b of two Numbers; anything with NaN is NaN.  The
\* divisors met here are positive.
minus(a, b) == IF a = NaN \/ b = NaN THEN NaN ELSE num(a[1] - b[1])
times(a, b) ==
    IF a = NaN \/ b = NaN THEN NaN
    ELSE IF a[1] * b[1] >= 0 THEN num((a[1] * b[1]) \div Scale)
    ELSE num(0 - (((0 - a[1] * b[1])) \div Scale))
divide(a, b) ==
    IF a = NaN \/ b = NaN \/ b[1] = 0 THEN NaN
    ELSE IF a[1] >= 0 THEN num((a[1] * Scale) \div b[1])
    ELSE num(0 - (((0 - a[1]) * Scale) \div b[1]))

\* a >= b: false when either is NaN.
atLeast(a, b) == a # NaN /\ b # NaN /\ a[1] >= b[1]
\* a < b: false when either is NaN.
lessThan(a, b) == a # NaN /\ b # NaN /\ a[1] < b[1]

\* Math.sqrt: NaN for NaN and for a negative number, else the root
\* (rounded down to a thousandth).
MaxRoot == 2000
MaxRadicand == 3000
rootOf ==
    [x \in 0..MaxRadicand |->
        CHOOSE r \in 0..MaxRoot : r * r <= x * Scale /\ (r + 1) * (r + 1) > x * Scale]
MathSqrt(x) ==
    IF x = NaN \/ x[1] < 0 THEN NaN ELSE num(rootOf[x[1]])

\* 1 + y + y^2/2 + y^3/6 + y^4/24 for y >= 0, term by term.
expSeries(y) ==
    LET t2 == (y * y) \div (2 * Scale)
        t3 == (t2 * y) \div (3 * Scale)
        t4 == (t3 * y) \div (4 * Scale)
    IN  Scale + y + t2 + t3 + t4

\* Math.exp: NaN for NaN, exactly 1 at 0, below 1 and above 0 for a negative
\* number, above 1 for a positive one (to four terms of the series).
MathExp(x) ==
    IF x = NaN THEN NaN
    ELSE IF x[1] <= 0 THEN num((Scale * Scale) \div expSeries(0 - x[1]))
    ELSE num(expSeries(x[1]))

\* Math.max and Math.min: NaN when either argument is.
MathMax(a, b) == IF a = NaN \/ b = NaN THEN NaN ELSE IF a[1] >= b[1] THEN a ELSE b
MathMin(a, b) == IF a = NaN \/ b = NaN THEN NaN ELSE IF a[1] <= b[1] THEN a ELSE b

\* A variant without the early return for energyRatio >= 1.
calculateTunnelingProbabilityWithoutBarrierCheck(particle, barrier) ==
    LET widthFactor == times(barrier.width,
                             MathSqrt(times(num(2 * Scale),
                                            minus(barrier.height, particle.energy))))
        probability == MathExp(times(num((0 - 2) * Scale), widthFactor))
    IN  MathMin(num(Scale), MathMax(num(0), probability))

\* calculateTunnelingProbability(particle, barrier)
calculateTunnelingProbability(particle, barrier) ==
    LET energyRatio == divide(particle.energy, barrier.height)
        widthFactor == times(barrier.width,
                             MathSqrt(times(num(2 * Scale),
                                            minus(barrier.height, particle.energy))))
        probability == MathExp(times(num((0 - 2) * Scale), widthFactor))
    IN  IF atLeast(energyRatio, num(Scale))
        THEN num(Scale)
        ELSE MathMin(num(Scale), MathMax(num(0), probability))

\* The barrier quantumTunneling builds: height 1.0, width 0.5.
tunnelBarrier == [height |-> num(1000), width |-> num(500)]
\* A lower barrier, for a caller of calculateTunnelingProbability.
lowBarrier == [height |-> num(500), width |-> num(500)]

\* What quantumRandomGenerator can return: the mean of 64 terms in [0, 1].
EnergyStep == 125
generatorValues == {num(k * EnergyStep) : k \in 0..(Scale \div EnergyStep)}
\* What Math.random can return: a number in [0, 1).
randomValues == {num(0), num(500), num(999)}
\* Energies a caller of calculateTunnelingProbability may pass.
MaxEnergy == 1500
callerEnergies == {num(k * EnergyStep) : k \in 0..(MaxEnergy \div EnergyStep)}

\* quantumTunneling() with the values its random sources gave.
quantumTunneling(energy, momentum, random) ==
    LET particle == [energy |-> energy, momentum |-> momentum]
        tunnelingProbability == calculateTunnelingProbability(particle, tunnelBarrier)
    IN  [call |-> "quantumTunneling", particle |-> particle, barrier |-> tunnelBarrier,
         tunnelingProbability |-> tunnelingProbability,
         tunneled |-> lessThan(random, tunnelingProbability)]

MaxTunnelCalls == 2

TunnelScenario ==
    [inputs |-> {}, fingerprints |-> Fingerprints, maxThreats |-> 0,
     permissionsApi |-> FALSE, maxTicks |-> 0, maxTrackers |-> 0, maxRequests |-> 0,
     maxTunnelCalls |-> MaxTunnelCalls]

QuantumTunneling(energy, momentum, random) ==
    /\ Len(tunnelLog) < scenario.maxTunnelCalls
    /\ tunnelLog' = Append(tunnelLog, quantumTunneling(energy, momentum, random))
    /\ UNCHANGED <<now, threats, scenario, advances, analysisVars, scoreVars,
                   displayVars, initVars, pageVars, themeVars, moduleVars>>

\* A direct call of calculateTunnelingProbability.
CalculateTunnelingProbability(energy, barrier) ==
    /\ Len(tunnelLog) < scenario.maxTunnelCalls
    /\ LET particle == [energy |-> energy, momentum |-> num(0)]
       IN  tunnelLog' = Append(tunnelLog,
               [call |-> "calculateTunnelingProbability", particle |-> particle,
                barrier |-> barrier,
                tunnelingProbability |-> calculateTunnelingProbability(particle, barrier),
                tunneled |-> FALSE])
    /\ UNCHANGED <<now, threats, scenario, advances, analysisVars, scoreVars,
                   displayVars, initVars, pageVars, themeVars, moduleVars>>

InitTunnel ==
    /\ scenario = TunnelScenario
    /\ now = 0
    /\ PageAtRest
    /\ threats = << >>
    /\ threatHistory = << >>
    /\ arrivals = << >>
    /\ lastThreat = None
    /\ patterns = << >>
    /\ predictions = << >>
    /\ nextPrediction = None
    /\ riskScore = None
    /\ advances = 0
    /\ ScoreAtRest
    /\ Running

NextTunnel ==
    \/ \E energy \in generatorValues, momentum \in {num(0), num(Scale)},
          random \in randomValues : QuantumTunneling(energy, momentum, random)
    \/ \E energy \in callerEnergies, barrier \in {tunnelBarrier, lowBarrier} :
          CalculateTunnelingProbability(energy, barrier)

SpecTunnel == InitTunnel /\ [][NextTunnel]_vars

\* C16: calculateTunnelingProbability returns exactly 1.0 whenever the
\* particle's energy is at least the barrier's height, so quantumTunneling
\* then reports tunneled = true; for every energy the result is a number in
\* [0, 1].
C16_TunnelingProbability ==
    \A i \in 1..Len(tunnelLog) :
        LET t == tunnelLog[i]
        IN  /\ t.tunnelingProbability # NaN
            /\ t.tunnelingProbability[1] >= 0
            /\ t.tunnelingProbability[1] <= Scale
            /\ atLeast(t.particle.energy, t.barrier.height) =>
                   /\ t.tunnelingProbability = num(Scale)
                   /\ t.call = "quantumTunneling" => t.tunneled

\* quantumTunneling drew an energy equal to the barrier's height and the
\* largest random number, and a caller passed an energy above a barrier.
C16_Witness ==
    /\ \E i \in 1..Len(tunnelLog) :
           /\ tunnelLog[i].call = "quantumTunneling"
           /\ tunnelLog[i].particle.energy = num(1000)
           /\ tunnelLog[i].tunneled
    /\ \E i \in 1..Len(tunnelLog) :
           /\ tunnelLog[i].call = "calculateTunnelingProbability"
           /\ tunnelLog[i].particle.energy = num(1500)
           /\ tunnelLog[i].tunnelingProbability = num(Scale)

----------------------------------------------------------------------------
(* FalconGuardian._djb2Hash over strings of growing length                 *)

\* h * 33 + c in exact arithmetic.
rollingStep(h, char) ==
    LET lo == h.lo * 33 + char
    IN  [hi |-> h.hi * 33 + (lo \div Limb), lo |-> lo % Limb]

RECURSIVE rollingHash(_)
rollingHash(str) ==
    IF str = << >> THEN [hi |-> 0, lo |-> 5381]
    ELSE rollingStep(rollingHash(SubSeq(str, 1, Len(str) - 1)), str[Len(str)])

\* The remainder of a (possibly negative) number modulo 2^32, as [hi, lo].
modulo32Bits(h) == [hi |-> h.hi % Limb, lo |-> h.lo]

MaxHashLen == 5
\* Code units: "a", "{" and the highest one.
HashUnits == {97, 123, 65535}

HashScenario ==
    [inputs |-> {}, fingerprints |-> Fingerprints, maxThreats |-> 0,
     permissionsApi |-> FALSE, maxTicks |-> 0, maxTrackers |-> 0, maxRequests |-> 0,
     maxHashLen |-> MaxHashLen]

\* _djb2Hash(str) for a string one code unit longer than the last.
HashCall(unit) ==
    /\ Len(hashInput[1]) < scenario.maxHashLen
    /\ hashInput' = Some(Append(hashInput[1], unit))
    /\ hashOutput' = Some(djb2Hash(Append(hashInput[1], unit)))
    /\ UNCHANGED <<now, threats, scenario, advances, analysisVars, scoreVars,
                   displayVars, initVars, pageVars, themeVars, tunnelLog,
                   startVars, quantumVars, shieldVars>>

\* _djb2Hash("") has returned 5381.
InitHash ==
    /\ scenario = HashScenario
    /\ now = 0
    /\ netLog = << >>
    /\ demoInterval = None
    /\ activeIntervals = {}
    /\ nextTimerId = 1
    /\ settingLog = << >>
    /\ ThemeAtRest
    /\ tunnelLog = << >>
    /\ hashInput = Some(<< >>)
    /\ hashOutput = Some(djb2Hash(<< >>))
    /\ StartAtRest
    /\ QuantumAtRest
    /\ ShieldAtRest
    /\ threats = << >>
    /\ threatHistory = << >>
    /\ arrivals = << >>
    /\ lastThreat = None
    /\ patterns = << >>
    /\ predictions = << >>
    /\ nextPrediction = None
    /\ riskScore = None
    /\ advances = 0
    /\ ScoreAtRest
    /\ Running

NextHash == \E unit \in HashUnits : HashCall(unit)

SpecHash == InitHash /\ [][NextHash]_vars

\* C21 (as stated): for every string, _djb2Hash returns the value of the
\* rolling hash h0 = 5381, h(i+1) = h(i) * 33 + code(c(i)), also where h has
\* left the 32-bit signed range.
C21_AsStated ==
    hashOutput # None => hashOutput[1] = rollingHash(hashInput[1])

\* What does hold: the value returned is the rolling hash up to a multiple of
\* 2^32, and is the rolling hash itself for strings of up to three code units
\* below 128.
C21_CongruentModulo32Bits ==
    hashOutput # None =>
        /\ modulo32Bits(hashOutput[1]) = modulo32Bits(rollingHash(hashInput[1]))
        /\ (Len(hashInput[1]) <= 3 /\ \A i \in DOMAIN hashInput[1] : hashInput[1][i] < 128)
              => hashOutput[1] = rollingHash(hashInput[1])

\* _djb2Hash("aaaa") has returned 2090068425; the rolling hash is 6385035721.
C21_Witness ==
    /\ hashInput = Some(<<97, 97, 97, 97>>)
    /\ hashOutput = Some([hi |-> 31891, lo |-> 59849])
    /\ rollingHash(hashInput[1]) = [hi |-> 97427, lo |-> 59849]

----------------------------------------------------------------------------
(* isTrackerDomain on parseable URLs (specification SpecNet)               *)

\* d is the tail of h, unit by unit.
IsRawSuffix(h, d) ==
    \E k \in 0..Len(h) :
        /\ Len(h) = k + Len(d)
        /\ \A j \in 1..Len(d) : h[k + j] = d[j]

\* C22: for a parseable URL, isTrackerDomain is true iff the hostname ends
\* with a listed domain as a raw string suffix: a subdomain of a listed domain
\* matches, so does an unrelated hostname that merely ends with one, and a
\* hostname that has the domain elsewhere, or a URL that has it outside the
\* hostname, does not.
C22_RawSuffixMatch ==
    \A i \in 1..Len(netLog) :
        LET arg == netLog[i].arg
        IN  /\ ~Unparsable(arg) =>
                  (netLog[i].tracker <=>
                      \E n \in 1..Len(trackerDomains) :
                          IsRawSuffix(hostnameOf(arg)[1], trackerDomains[n]))
            /\ arg \in {SubdomainUrl, LookalikeUrl, TrackerUrl, UpperCaseTrackerUrl}
                  => netLog[i].tracker
            /\ arg \in {PrefixHostUrl, PathMentionUrl, UserinfoUrl, TrailingDotUrl, PlainUrl}
                  => ~netLog[i].tracker

\* A request to sub.google-analytics.com and one to evilgoogle-analytics.com
\* were both found to be trackers and recorded.
C22_Witness ==
    /\ Len(netLog) = 2
    /\ netLog[1].arg = SubdomainUrl
    /\ netLog[2].arg = LookalikeUrl
    /\ netLog[1].tracker /\ netLog[2].tracker
    /\ Len(trackers) = 2

----------------------------------------------------------------------------
(* The edge of the time windows (specification Spec)                       *)

\* Positions of the history whose events are at most `window` old at the
\* latest analysis, the edge included.
InclusiveIdx(hist, window) ==
    { i \in DOMAIN hist : hist[i].timestamp >= AnalysedAt - window }

InclusiveSameType ==
    Cardinality({ i \in InclusiveIdx(threatHistory, 60000) :
                    threatHistory[i].type = lastThreat[1].type })

InclusiveRiskSum ==
    LET idx(severity) == { i \in InclusiveIdx(HistoryRead, 300000) :
                             HistoryRead[i].severity = severity }
    IN  10 * Cardinality(idx("critical")) + 5 * Cardinality(idx("high"))
            + 2 * Cardinality(idx("medium")) + Cardinality(idx("low"))

\* C23 (as stated): a window lookup of length W at time now takes exactly the
\* events with timestamp >= now - W, so an event exactly 60000 ms old counts
\* for the patterns and one exactly 300000 ms old counts for the risk score.
C23_AsStated ==
    /\ lastThreat # None =>
           ((PatternIdx("rapid_repetition") # {}) <=> (InclusiveSameType >= 4))
    /\ riskScore # None =>
           riskScore[1] = (IF InclusiveRiskSum > 100 THEN 100 ELSE InclusiveRiskSum)

\* Four events of the triggering category are at most 60000 ms old, one of
\* them exactly: no rapid_repetition was emitted.
C23_Witness ==
    /\ lastThreat # None
    /\ InclusiveSameType = 4
    /\ \E i \in DOMAIN threatHistory :
          /\ threatHistory[i].type = lastThreat[1].type
          /\ threatHistory[i].timestamp = AnalysedAt - 60000
    /\ PatternIdx("rapid_repetition") = {}

----------------------------------------------------------------------------
(* What an analysis does to the stores (specification Spec)                *)

\* C24 (as amended): analyzeThreat changes the predictor's history in one
\* way only: it appends a copy of its argument stamped with the current time
\* and keeps the last 100 events.  The events already stored keep their order
\* and their timestamps, and the application's threat list is not touched;
\* detectPatterns and generatePredictions change nothing.
C24_AnalysisOnlyAppends ==
    [][ Len(arrivals') > Len(arrivals) =>
          /\ threatHistory' =
                SliceLast(Append(threatHistory, [lastThreat'[1] EXCEPT !.timestamp = now]),
                          100)
          /\ threats' = threats ]_vars

\* C24 (as stated): a call that analyses a threat leaves the stored history,
\* its length and its events' timestamps, unchanged.
C24_AsStated ==
    [][ Len(arrivals') > Len(arrivals) => threatHistory' = threatHistory ]_vars

\* An analysis at 60000 ms has returned a pattern and left in the history
\* the events stamped 0 as they were, with its own event after them.
C24_Witness ==
    /\ lastThreat # None
    /\ patterns # << >>
    /\ Len(threatHistory) >= 4
    /\ threatHistory[1].timestamp = 0
    /\ threatHistory[Len(threatHistory)].timestamp = 60000
    /\ threatHistory[Len(threatHistory)].type = lastThreat[1].type

----------------------------------------------------------------------------
(* The order of the stored events (specification SpecCap)                  *)

NonDecreasing(events) ==
    \A i \in 1..(Len(events) - 1) : events[i].timestamp <= events[i + 1].timestamp

\* C25: with a clock that never goes back, the timestamps of the application's
\* threat list and of the predictor's history are non-decreasing in sequence
\* order, after any interleaving of hook appends, simulated threats, ticks
\* and truncation.
C25_TimestampsNonDecreasing ==
    /\ NonDecreasing(threats)
    /\ NonDecreasing(threatHistory)
    /\ \A i \in DOMAIN threats : threats[i].timestamp <= now
    /\ \A i \in DOMAIN threatHistory : threatHistory[i].timestamp <= now

\* Threats were listed at different times between ticks and analysed at
\* different times: both sequences rise strictly somewhere.
C25_Witness ==
    /\ Len(threats) = 3
    /\ threats[1].timestamp < threats[3].timestamp
    /\ Len(threatHistory) = 3
    /\ threatHistory[1].timestamp < threatHistory[2].timestamp
    /\ threatHistory[1].type # threatHistory[3].type

----------------------------------------------------------------------------
(* Global initialization (src/js/core.js, initializeFalconGuardian and the  *)
(* two listeners that call it; specification SpecStart)                    *)

\* A variant that constructs whatever the flag says.
initializeFalconGuardianUnguarded(initialized, constructorThrows) ==
    IF constructorThrows
    THEN [constructed |-> FALSE, initialized |-> initialized]
    ELSE [constructed |-> TRUE, initialized |-> TRUE]

\* initializeFalconGuardian(): with the flag unset, new FalconGuardian() and,
\* if the constructor returned, the flag is set; an error of the constructor
\* is caught and leaves the flag as it was.
initializeFalconGuardian(initialized, constructorThrows) ==
    IF ~initialized
    THEN IF constructorThrows
         THEN [constructed |-> FALSE, initialized |-> initialized]
         ELSE [constructed |-> TRUE, initialized |-> TRUE]
    ELSE [constructed |-> FALSE, initialized |-> initialized]

\* What a trigger that did not call initializeFalconGuardian leaves.
notCalled(initialized) == [constructed |-> FALSE, initialized |-> initialized]

MaxStartTicks == 3

StartScenario ==
    [inputs |-> {}, fingerprints |-> {PlainFingerprint}, maxThreats |-> 0,
     permissionsApi |-> FALSE, maxTicks |-> MaxStartTicks, maxTrackers |-> 0]

\* What a start-up trigger does, given what initializeFalconGuardian returned
\* (or that it was not called).  The constructor throws when
\* window.matchMedia does, before init is called.  Otherwise it calls init,
\* which runs up to its first await within the constructor: either a module
\* fails to construct or initialise and init's catch block sets the 2 s
\* timer, or startMonitoring calls detector.startDetection, which installs
\* the hooks (or throws, with the hooks in place or not), and init waits.
Triggered(trigger, result, constructorThrows, outcome, hooked) ==
    /\ outcome \in ConstructOrInitialise \cup {"startDetection", "none"}
    /\ outcome \in ConstructOrInitialise => hooked = FALSE
    /\ outcome = "none" => hooked = TRUE
    /\ ~result.constructed => (outcome = "none" /\ hooked = TRUE)
    /\ startLog' = Append(startLog,
                          [trigger |-> trigger, initialized |-> falconGuardianInitialized,
                           threw |-> constructorThrows /\ ~falconGuardianInitialized,
                           constructed |-> result.constructed])
    /\ falconGuardianInitialized' = result.initialized
    /\ IF result.constructed
       THEN /\ instances' = instances + 1
            /\ IF outcome \in ConstructOrInitialise
               THEN /\ basicLoops' = basicLoops + 1
                    /\ UNCHANGED <<hookSets, pendingInits>>
               ELSE /\ hookSets' = hookSets + (IF hooked THEN 1 ELSE 0)
                    /\ pendingInits' = pendingInits + 1
                    /\ UNCHANGED basicLoops
       ELSE UNCHANGED <<instances, hookSets, pendingInits, basicLoops>>
    /\ UNCHANGED <<now, threats, scenario, advances, analysisVars, scoreVars, displayVars,
                   initVars, pageVars, themeVars, tunnelLog, hashVars, quantumVars,
                   shieldVars, realtimeLoops>>

\* DOMContentLoaded: the listener arms the 500 ms timer.
DOMContentLoaded ==
    /\ docState = "loading"
    /\ docState' = "interactive"
    /\ startTimer' = "armed"
    /\ UNCHANGED <<now, threats, scenario, advances, analysisVars, scoreVars, displayVars,
                   initVars, pageVars, themeVars, tunnelLog, hashVars, quantumVars,
                   shieldVars, falconGuardianInitialized, instances, pendingInits,
                   hookSets, realtimeLoops, basicLoops, startLog>>

\* The 500 ms timer fires: initializeFalconGuardian().
StartTimerFires(constructorThrows, outcome, hooked) ==
    /\ startTimer = "armed"
    /\ startTimer' = "fired"
    /\ UNCHANGED docState
    /\ Triggered("timer", initializeFalconGuardian(falconGuardianInitialized, constructorThrows),
                 constructorThrows, outcome, hooked)

\* The window's load event, after DOMContentLoaded and before or after the
\* timer: the listener calls initializeFalconGuardian() if the flag is unset.
WindowLoad(constructorThrows, outcome, hooked) ==
    /\ docState = "interactive"
    /\ docState' = "complete"
    /\ UNCHANGED startTimer
    /\ Triggered("load",
                 IF ~falconGuardianInitialized
                 THEN initializeFalconGuardian(falconGuardianInitialized, constructorThrows)
                 ELSE notCalled(falconGuardianInitialized),
                 constructorThrows, outcome, hooked)

\* An init call goes on after await this.startMonitoring(): initializeUI,
\* startRealtimeUpdates, then updateQuantumScore, which returns or throws into
\* init's catch block (startBasicUpdates) with the 1 s timer already set.
InitGoesOn(outcome) ==
    /\ pendingInits > 0
    /\ outcome \in {"updateQuantumScore", "none"}
    /\ pendingInits' = pendingInits - 1
    /\ realtimeLoops' = realtimeLoops + 1
    /\ basicLoops' = basicLoops + (IF outcome = "updateQuantumScore" THEN 1 ELSE 0)
    /\ UNCHANGED <<now, threats, scenario, advances, analysisVars, scoreVars, displayVars,
                   initVars, pageVars, themeVars, tunnelLog, hashVars, quantumVars,
                   shieldVars, docState, startTimer, falconGuardianInitialized, instances,
                   hookSets, startLog>>

\* One second passes with a real-time loop running: each loop's callback runs.
StartLoopTick ==
    /\ realtimeLoops > 0
    /\ advances < scenario.maxTicks
    /\ now' = now + TickInterval
    /\ advances' = advances + realtimeLoops
    /\ UNCHANGED <<threats, scenario, analysisVars, scoreVars, displayVars,
                   initVars, pageVars, themeVars, tunnelLog, moduleVars>>

\* The page while its scripts are evaluated: nothing constructed, the state
\* object's fields as the constructor will write them, the markup untouched.
AppBeforeStart ==
    /\ now = 0
    /\ threats = << >>
    /\ threatHistory = << >>
    /\ arrivals = << >>
    /\ lastThreat = None
    /\ patterns = << >>
    /\ predictions = << >>
    /\ nextPrediction = None
    /\ riskScore = None
    /\ advances = 0
    /\ trackers = << >>
    /\ privacyScore = 100
    /\ protocol = "https:"
    /\ permissionsApi = FALSE
    /\ fingerprint = None
    /\ inFlight = None
    /\ lastUpdate = None
    /\ uniqLog = {}
    /\ dispScore = None
    /\ dispMetrics = None
    /\ initPc = "new"
    /\ mode = "starting"
    /\ modules = {}
    /\ hooksInstalled = FALSE
    /\ realtimeTimer = FALSE
    /\ basicTimer = FALSE
    /\ initError = "none"

PageBeforeStart ==
    /\ AppBeforeStart
    /\ PageAtRest

InitStartUp ==
    /\ scenario = StartScenario
    /\ PageBeforeStart

NextStart ==
    \/ DOMContentLoaded
    \/ \E constructorThrows \in BOOLEAN,
          outcome \in ConstructOrInitialise \cup {"startDetection", "none"},
          hooked \in BOOLEAN : StartTimerFires(constructorThrows, outcome, hooked)
    \/ \E constructorThrows \in BOOLEAN,
          outcome \in ConstructOrInitialise \cup {"startDetection", "none"},
          hooked \in BOOLEAN : WindowLoad(constructorThrows, outcome, hooked)
    \/ \E outcome \in {"updateQuantumScore", "none"} : InitGoesOn(outcome)
    \/ StartLoopTick

SpecStart == InitStartUp /\ [][NextStart]_vars

\* C27: in whichever order the 500 ms timer and the window's load event
\* come, at most one FalconGuardian is constructed: a trigger that finds
\* falconGuardianInitialized set constructs nothing, the flag is set exactly
\* when an instance exists, and at most one 1 s real-time loop and one set
\* of API hooks is installed.
C27_AtMostOneInstance ==
    /\ instances <= 1
    /\ falconGuardianInitialized <=> instances = 1
    /\ \A i \in DOMAIN startLog : startLog[i].initialized => ~startLog[i].constructed
    /\ realtimeLoops + pendingInits <= 1
    /\ hookSets <= 1
    /\ advances <= scenario.maxTicks

\* The load event came first and constructed the instance; the timer fired
\* later, found the flag set and constructed nothing; the instance's one
\* real-time loop has ticked.
C27_Witness ==
    /\ Len(startLog) = 2
    /\ startLog[1] = [trigger |-> "load", initialized |-> FALSE, threw |-> FALSE,
                      constructed |-> TRUE]
    /\ startLog[2].trigger = "timer"
    /\ startLog[2].initialized
    /\ instances = 1
    /\ hookSets = 1
    /\ realtimeLoops = 1
    /\ advances = MaxStartTicks

\* The other order: the timer constructed the instance and the load event
\* found the flag set.
C27_TimerFirst ==
    /\ Len(startLog) = 2
    /\ startLog[1].trigger = "timer"
    /\ startLog[1].constructed
    /\ startLog[2].trigger = "load"
    /\ ~startLog[2].constructed
    /\ realtimeLoops = 1

\* The constructor threw at the first trigger and returned at the second.
C27_SecondAttempt ==
    /\ Len(startLog) = 2
    /\ startLog[1].threw
    /\ startLog[2].constructed
    /\ instances = 1

----------------------------------------------------------------------------
(* QuantumEngine: the qubit set and the scoring operations                 *)
(* (src/js/quantum.js; specification SpecQuantum)                          *)

QubitCount == 64
MaxPairs == 32
NumStates == 8
\* Math.PI * 2, in thousandths.
TwoPi == 6283

\* Math.random() as a periodic stream of values in [0, 1): its k-th value.
drawn(stream, k) == stream[((k - 1) % Len(stream)) + 1]

RandomStreams == { <<0>>, <<999>>, <<500>>, <<0, 999>>, <<999, 500, 0, 250>> }

\* generateQubits(): 64 records, each from three draws: the state is 1 when
\* the first is above 0.5, the phase is the second times 2 pi, the amplitude
\* is the third.
generateQubits(stream) ==
    [i \in 1..QubitCount |->
        [state |-> IF drawn(stream, 3 * i - 2) > Scale \div 2 THEN 1 ELSE 0,
         phase |-> (drawn(stream, 3 * i - 1) * TwoPi) \div Scale,
         amplitude |-> drawn(stream, 3 * i)]]

\* What quantumRandomGenerator() can return: each qubit adds
\* (state * |sin(phase + noise)|) % 2, which is 0 for state 0 and within
\* [0, 1] for state 1, and the sum is divided by the number of qubits.
quantumRandomGenerator(qs) ==
    LET ones == Cardinality({i \in DOMAIN qs : qs[i].state = 1})
    IN  {v \in generatorValues : v[1] * Len(qs) <= ones * Scale}

\* A variant whose loop advances by one: overlapping pairs.
quantumEntanglementOverlapping(qs, correlation) ==
    [k \in 1..(Len(qs) - 1) |->
        [qubit1 |-> qs[k], qubit2 |-> qs[k + 1], state |-> "entangled",
         correlation |-> correlation]]

\* quantumEntanglement(): for i = 0, 2, 4, ... below the length, with
\* i + 1 below the length, the pair of qubits i and i + 1 (the k-th pair
\* holds the elements 2k - 1 and 2k counted from one).  The correlation is
\* one more draw per pair; the pairs of a call get the same one here.
quantumEntanglement(qs, correlation) ==
    [k \in 1..(Len(qs) \div 2) |->
        [qubit1 |-> qs[2 * k - 1], qubit2 |-> qs[2 * k], state |-> "entangled",
         correlation |-> correlation]]

\* quantumSuperposition(): 8 states, each with an amplitude from
\* quantumRandomGenerator and its square as probability, divided by the sum
\* of the squares (NaN when that sum is 0).  The states of a call get the
\* same amplitude here; the phase, one more draw, is left out.
quantumSuperposition(amplitude) ==
    LET probability == times(amplitude, amplitude)
        totalProbability == num(NumStates * probability[1])
    IN  [i \in 1..NumStates |->
            [amplitude |-> amplitude,
             probability |-> divide(probability, totalProbability)]]

\* interpretQuantumScore(score): every comparison with NaN is false.
interpretQuantumScore(score) ==
    IF atLeast(score, num(800)) THEN "Quantum Secure"
    ELSE IF atLeast(score, num(600)) THEN "Quantum Protected"
    ELSE IF atLeast(score, num(400)) THEN "Quantum Aware"
    ELSE IF atLeast(score, num(200)) THEN "Quantum Vulnerable"
    ELSE "Quantum Exposed"

\* The sum of the probabilities of the states, from the first on.
RECURSIVE sumProbability(_, _)
sumProbability(states, n) ==
    IF n = 0 THEN num(0)
    ELSE LET rest == sumProbability(states, n - 1)
         IN  IF rest = NaN \/ states[n].probability = NaN THEN NaN
             ELSE num(rest[1] + states[n].probability[1])

\* quantumPrivacyScore(), given what the three operations returned.
quantumPrivacyScore(superposition, entanglement, tunneling) ==
    LET superpositionFactor ==
            divide(sumProbability(superposition, Len(superposition)),
                   num(Len(superposition) * Scale))
        entanglementFactor == divide(num(Len(entanglement) * Scale), num(MaxPairs * Scale))
        tunnelingFactor == tunneling.tunnelingProbability
        total == IF superpositionFactor = NaN \/ tunnelingFactor = NaN THEN NaN
                 ELSE num(superpositionFactor[1] + entanglementFactor[1] + tunnelingFactor[1])
        quantumScore == divide(total, num(3 * Scale))
    IN  [score |-> IF quantumScore = NaN THEN NaN
                   ELSE num((quantumScore[1] * 100 + Scale \div 2) \div Scale),
         factors |-> [superposition |-> superpositionFactor,
                      entanglement |-> entanglementFactor,
                      tunneling |-> tunnelingFactor],
         interpretation |-> interpretQuantumScore(quantumScore)]

QuantumScenario ==
    [inputs |-> {}, fingerprints |-> {PlainFingerprint}, maxThreats |-> 0,
     permissionsApi |-> FALSE, maxTicks |-> 0, maxTrackers |-> 0]

\* A call of a scoring operation is followed: before init every one of them
\* reads this.quantumState.qubits.length of an undefined qubits and throws.
Called(op, returned) ==
    /\ quantumCall' = Some(IF qubits = None
                           THEN [op |-> op, threw |-> TRUE, returned |-> None]
                           ELSE [op |-> op, threw |-> FALSE, returned |-> Some(returned)])
    /\ UNCHANGED <<now, threats, scenario, advances, analysisVars, scoreVars, displayVars,
                   initVars, pageVars, themeVars, tunnelLog, hashVars, startVars,
                   shieldVars, qubits>>

\* QuantumEngine.init(), called once by FalconGuardian.init.
QuantumInit(stream) ==
    /\ qubits = None
    /\ qubits' = Some(generateQubits(stream))
    /\ UNCHANGED <<now, threats, scenario, advances, analysisVars, scoreVars, displayVars,
                   initVars, pageVars, themeVars, tunnelLog, hashVars, startVars,
                   shieldVars, quantumCall>>

QuantumEntanglementCall(correlation) ==
    Called("quantumEntanglement",
           IF qubits = None THEN << >> ELSE quantumEntanglement(qubits[1], correlation))

QuantumSuperpositionCall(amplitude) ==
    /\ qubits # None => amplitude \in quantumRandomGenerator(qubits[1])
    /\ qubits = None => amplitude = num(0)
    /\ Called("quantumSuperposition", quantumSuperposition(amplitude))

QuantumTunnelingCall(energy, momentum, random) ==
    /\ qubits # None => energy \in quantumRandomGenerator(qubits[1])
    /\ qubits = None => (energy = num(0) /\ momentum = num(0) /\ random = num(0))
    /\ Called("quantumTunneling", quantumTunneling(energy, momentum, random))

QuantumPrivacyScoreCall(amplitude, correlation, energy) ==
    /\ qubits # None => /\ amplitude \in quantumRandomGenerator(qubits[1])
                        /\ energy \in quantumRandomGenerator(qubits[1])
    /\ qubits = None => (amplitude = num(0) /\ energy = num(0))
    /\ Called("quantumPrivacyScore",
              IF qubits = None THEN << >>
              ELSE quantumPrivacyScore(quantumSuperposition(amplitude),
                                       quantumEntanglement(qubits[1], correlation),
                                       quantumTunneling(energy, num(0), num(0))))

InitQuantum ==
    /\ scenario = QuantumScenario
    /\ PageBeforeStart

NextQuantum ==
    \/ \E stream \in RandomStreams : QuantumInit(stream)
    \/ \E correlation \in randomValues : QuantumEntanglementCall(correlation)
    \/ \E amplitude \in generatorValues : QuantumSuperpositionCall(amplitude)
    \/ \E energy \in generatorValues, momentum \in {num(0), num(Scale)},
          random \in randomValues : QuantumTunnelingCall(energy, momentum, random)
    \/ \E amplitude \in generatorValues, energy \in generatorValues :
          QuantumPrivacyScoreCall(amplitude, num(500), energy)

SpecQuantum == InitQuantum /\ [][NextQuantum]_vars

\* What C26 says of a state: after init there are 64 qubits with state 0 or
\* 1; a quantumEntanglement that returned gave 32 pairs, the k-th of the
\* qubits 2k and 2k + 1 counted from zero; a quantumPrivacyScore that
\* returned has the entanglement factor 32/32.
QubitsAndPairs ==
    /\ qubits # None =>
           /\ Len(qubits[1]) = 64
           /\ \A i \in 1..Len(qubits[1]) : qubits[1][i].state \in {0, 1}
    /\ (quantumCall # None /\ qubits # None /\ ~quantumCall[1].threw) =>
           LET call == quantumCall[1]
           IN  /\ call.op = "quantumEntanglement" =>
                      /\ Len(call.returned[1]) = 32
                      /\ \A k \in 0..31 :
                             /\ call.returned[1][k + 1].qubit1 = qubits[1][(2 * k) + 1]
                             /\ call.returned[1][k + 1].qubit2 = qubits[1][(2 * k + 1) + 1]
               /\ call.op = "quantumPrivacyScore" =>
                      call.returned[1].factors.entanglement = num(Scale)

\* C26: after QuantumEngine.init the qubit set holds exactly 64 records with
\* state 0 or 1, no scoring operation changes it, quantumEntanglement returns
\* exactly 32 pairs (qubit 2k with qubit 2k + 1), and the entanglement factor
\* of the composite score is 32/32.
C26_QubitsFixedAfterInit ==
    [][ /\ qubits # None => qubits' = qubits
        /\ QubitsAndPairs' ]_vars

\* After an init that drew states of both kinds, quantumPrivacyScore has
\* returned a score with the entanglement factor 1.
C26_Witness ==
    /\ qubits # None
    /\ qubits[1][1].state # qubits[1][2].state
    /\ quantumCall # None
    /\ quantumCall[1].op = "quantumPrivacyScore"
    /\ quantumCall[1].threw = FALSE
    /\ quantumCall[1].returned[1].factors.entanglement = num(1000)
    /\ quantumCall[1].returned[1].score # NaN

\* The pairs of a call, on the same qubits.
C26_PairsReturned ==
    /\ qubits # None
    /\ quantumCall # None
    /\ quantumCall[1].op = "quantumEntanglement"
    /\ Len(quantumCall[1].returned[1]) = 32
    /\ quantumCall[1].returned[1][32].qubit2 = qubits[1][64]

\* With every state 0 the generator returns 0, the probabilities are 0/0 and
\* the composite score is NaN; its entanglement factor is 1 all the same.
C26_ScoreIsNaN ==
    /\ qubits # None
    /\ quantumCall # None
    /\ quantumCall[1].op = "quantumPrivacyScore"
    /\ quantumCall[1].threw = FALSE
    /\ quantumCall[1].returned[1].score = NaN
    /\ quantumCall[1].returned[1].factors.entanglement = num(1000)

----------------------------------------------------------------------------
(* What a periodic tick enters into the history (specification SpecCap)    *)

C28_NotLatestSkipped ==
    /\ Len(threats) = 2
    /\ threats[1].type = "canvas_fingerprint"
    /\ threats[2].type = "geolocation_access"
    /\ threats[1].timestamp = threats[2].timestamp
    /\ Len(threatHistory) = 3
    /\ \A i \in DOMAIN threatHistory : threatHistory[i].type = "geolocation_access"

----------------------------------------------------------------------------
(* Demo mode after it was switched off (specification SpecDemo)            *)

\* The latest updateSetting('demoMode', ...) call switched demo mode off.
DemoModeDisabled ==
    /\ settingLog # << >>
    /\ ~settingLog[Len(settingLog)].enabled

\* C29 (as stated): once demo mode has been disabled and not enabled again,
\* no simulated threat is appended to the threat list, whatever enable and
\* disable calls came before, two enables in a row included.
C29_AsStated ==
    [][ (DemoModeDisabled /\ settingLog' = settingLog) => threats' = threats ]_vars

\* What the code gives: after a disable, the interval whose handle
\* this.demoInterval holds is not set, and none is set at all unless two
\* enables came in a row before.
C29_LatestIntervalCleared ==
    DemoModeDisabled =>
        /\ demoInterval # None => demoInterval[1] \notin activeIntervals
        /\ (\A i \in 1..(Len(settingLog) - 1) :
                ~(settingLog[i].enabled /\ settingLog[i + 1].enabled))
              => activeIntervals = {}

\* Enabled twice, then disabled: the first interval is still set, its
\* handle lost, and its callback has appended threats since.
C29_Witness ==
    /\ Len(settingLog) = 3
    /\ settingLog[1].enabled
    /\ settingLog[2].enabled
    /\ ~settingLog[3].enabled
    /\ demoInterval = Some(2)
    /\ activeIntervals = {1}
    /\ Len(threats) = 2

----------------------------------------------------------------------------
(* Shield: the canvas and webrtc protection (src/js/quantum.js;            *)
(* specification SpecShield)                                               *)

\* A value is truthy unless it is undefined (the others here are functions).
truthy(v) == v # "undefined"

\* if (!this.originalFunctions.X) this.originalFunctions.X = <installed>;
saveUnlessSaved(saved, installed) ==
    IF ~truthy(saved) THEN installed ELSE saved

\* spoofCanvas(): save, then install Shield's wrapper.
spoofCanvas(page) ==
    [installed |-> "shieldWrapper",
     saved |-> saveUnlessSaved(page.saved, page.installed)]

\* restoreCanvas(): install what was saved, if anything truthy was.
restoreCanvas(page) ==
    [installed |-> IF truthy(page.saved) THEN page.saved ELSE page.installed,
     saved |-> page.saved]

\* blockWebRTC(): save, then install the function that throws.
blockWebRTC(page) ==
    [installed |-> "shieldWrapper",
     saved |-> saveUnlessSaved(page.saved, page.installed)]

\* restoreWebRTC(): install what was saved, if anything truthy was.
restoreWebRTC(page) ==
    [installed |-> IF truthy(page.saved) THEN page.saved ELSE page.installed,
     saved |-> page.saved]

\* toggleProtection(type, enabled), for the two types that install anything.
toggleProtection(type, enabled, page) ==
    CASE type = "canvas" -> IF enabled THEN spoofCanvas(page) ELSE restoreCanvas(page)
      [] type = "webrtc" -> IF enabled THEN blockWebRTC(page) ELSE restoreWebRTC(page)

\* The installed and the saved function of a protection type.
shieldPage(type) ==
    CASE type = "canvas" -> [installed |-> installedToDataURL,
                             saved |-> originalFunctions.toDataURL]
      [] type = "webrtc" -> [installed |-> installedRTCPeerConnection,
                             saved |-> originalFunctions.RTCPeerConnection]

ProtectionTypes == {"canvas", "webrtc"}
MaxToggles == 4

ShieldScenario ==
    [inputs |-> {}, fingerprints |-> {PlainFingerprint}, maxThreats |-> 0,
     permissionsApi |-> FALSE, maxTicks |-> 0, maxTrackers |-> 0,
     maxToggles |-> MaxToggles]

\* The log entry of one enable or disable call.
toggled(type, enabled, before, after) ==
    [type |-> type, enabled |-> enabled, before |-> before.installed,
     after |-> after.installed]

\* The calls are written to the page and to the log.
ShieldBecomes(canvas, webrtc, entries) ==
    /\ installedToDataURL' = canvas.installed
    /\ installedRTCPeerConnection' = webrtc.installed
    /\ originalFunctions' = [toDataURL |-> canvas.saved, RTCPeerConnection |-> webrtc.saved]
    /\ toggleLog' = toggleLog \o entries

\* startMonitoring up to its first await: detector.startDetection() calls
\* hookAPIs, which replaces HTMLCanvasElement.prototype.toDataURL by the
\* detector's recording hook first; it returns, or throws with that hook in
\* place or not.
StartDetection(hooked, threw) ==
    /\ initPc = "new"
    /\ hooked \in BOOLEAN
    /\ threw \in BOOLEAN
    /\ ~threw => hooked
    /\ initPc' = "monitoring"
    /\ modules' = AllModules
    /\ hooksInstalled' = hooked
    /\ initError' = (IF threw THEN "startDetection" ELSE initError)
    /\ installedToDataURL' = (IF hooked THEN "detectorHook" ELSE installedToDataURL)
    /\ UNCHANGED <<now, threats, scenario, advances, analysisVars, scoreVars, displayVars,
                   pageVars, themeVars, tunnelLog, hashVars, startVars, quantumVars,
                   mode, realtimeTimer, basicTimer,
                   installedRTCPeerConnection, originalFunctions, toggleLog>>

\* startMonitoring goes on: if startDetection threw, activateProtection is
\* skipped; if scrambleFingerprint throws, no protection method is enabled;
\* otherwise the canvas and the webrtc method are enabled, in this order.
\* init then goes on to initializeUI, which wires the toggles.
ActivateProtection(outcome) ==
    /\ initPc = "monitoring"
    /\ outcome \in {"scrambleFingerprint", "none"}
    /\ initPc' = "ui"
    /\ IF initError = "startDetection" \/ outcome = "scrambleFingerprint"
       THEN /\ initError' = (IF initError = "none" THEN "activateProtection" ELSE initError)
            /\ UNCHANGED shieldVars
       ELSE /\ UNCHANGED initError
            /\ ShieldBecomes(spoofCanvas(shieldPage("canvas")),
                             blockWebRTC(shieldPage("webrtc")),
                             << toggled("canvas", TRUE, shieldPage("canvas"),
                                        spoofCanvas(shieldPage("canvas"))),
                                toggled("webrtc", TRUE, shieldPage("webrtc"),
                                        blockWebRTC(shieldPage("webrtc"))) >>)
    /\ UNCHANGED <<now, threats, scenario, advances, analysisVars, scoreVars, displayVars,
                   pageVars, themeVars, tunnelLog, hashVars, startVars, quantumVars,
                   mode, modules, hooksInstalled, realtimeTimer, basicTimer>>

\* updateSetting('canvasProtection' | 'webrtcProtection', enabled):
\* shield.toggleProtection(type, enabled).
ToggleProtection(type, enabled) ==
    /\ initPc = "ui"
    /\ type \in ProtectionTypes
    /\ enabled \in BOOLEAN
    /\ Len(toggleLog) < scenario.maxToggles
    /\ LET after == toggleProtection(type, enabled, shieldPage(type))
           entry == << toggled(type, enabled, shieldPage(type), after) >>
       IN  IF type = "canvas"
           THEN ShieldBecomes(after, shieldPage("webrtc"), entry)
           ELSE ShieldBecomes(shieldPage("canvas"), after, entry)
    /\ UNCHANGED <<now, threats, scenario, advances, analysisVars, scoreVars, displayVars,
                   initVars, pageVars, themeVars, tunnelLog, hashVars, startVars,
                   quantumVars>>

\* The page before its scripts run, on a browser with or without WebRTC.
InitShield ==
    /\ scenario = ShieldScenario
    /\ AppBeforeStart
    /\ netLog = << >>
    /\ demoInterval = None
    /\ activeIntervals = {}
    /\ nextTimerId = 1
    /\ settingLog = << >>
    /\ ThemeAtRest
    /\ tunnelLog = << >>
    /\ hashInput = None
    /\ hashOutput = None
    /\ StartAtRest
    /\ QuantumAtRest
    /\ installedToDataURL = "native"
    /\ installedRTCPeerConnection \in {"native", "undefined"}
    /\ originalFunctions = [toDataURL |-> "undefined", RTCPeerConnection |-> "undefined"]
    /\ toggleLog = << >>

NextShield ==
    \/ \E hooked \in BOOLEAN, threw \in BOOLEAN : StartDetection(hooked, threw)
    \/ \E outcome \in {"scrambleFingerprint", "none"} : ActivateProtection(outcome)
    \/ \E type \in ProtectionTypes, enabled \in BOOLEAN : ToggleProtection(type, enabled)

SpecShield == InitShield /\ [][NextShield]_vars

\* The calls of one protection type, in order.
CallsOf(type) == SelectSeq(toggleLog, LAMBDA e : e.type = type)

\* What C30 says of one protection type: what Shield has saved is never its
\* own wrapper; after a disable that follows at least one enable, the
\* function installed is the one that was there before the first enable;
\* a disable before any enable changed nothing.
RestoresPreExisting(type) ==
    LET calls == CallsOf(type)
        enables == {i \in DOMAIN calls : calls[i].enabled}
        first == CHOOSE i \in enables : \A j \in enables : i <= j
    IN  /\ shieldPage(type).saved # "shieldWrapper"
        /\ \A i \in DOMAIN calls :
               ~calls[i].enabled =>
                   IF \E j \in enables : j < i
                   THEN calls[i].after = calls[first].before
                   ELSE calls[i].after = calls[i].before

\* C30 (as stated): for every sequence of canvas-protection toggles Shield
\* saves the pre-existing toDataURL on the first enable only and never its
\* own wrapper, so a disable after any number of enables restores the
\* function installed before the first enable and a disable before any enable
\* changes nothing; and the same holds for RTCPeerConnection under the
\* webrtc toggle.
C30_AsStated ==
    /\ RestoresPreExisting("canvas")
    /\ RestoresPreExisting("webrtc")

\* What the code gives: the statement for the canvas, and for WebRTC on a
\* browser that has RTCPeerConnection.
C30_CanvasAndDefinedWebRTC ==
    /\ RestoresPreExisting("canvas")
    /\ (\A i \in DOMAIN CallsOf("webrtc") : CallsOf("webrtc")[i].before # "undefined")
          => RestoresPreExisting("webrtc")

\* On a browser without RTCPeerConnection the webrtc protection was enabled
\* twice and then disabled: Shield holds its own throwing function as the
\* original and the disable has installed it again.
C30_Witness ==
    /\ Len(CallsOf("webrtc")) = 3
    /\ CallsOf("webrtc")[1].before = "undefined"
    /\ CallsOf("webrtc")[1].enabled
    /\ CallsOf("webrtc")[2].enabled
    /\ ~CallsOf("webrtc")[3].enabled
    /\ originalFunctions.RTCPeerConnection = "shieldWrapper"
    /\ installedRTCPeerConnection = "shieldWrapper"

\* The canvas protection was enabled twice and disabled: the detector's hook
\* is back in place.
C30_CanvasRestored ==
    /\ Len(CallsOf("canvas")) = 3
    /\ CallsOf("canvas")[1].enabled
    /\ CallsOf("canvas")[2].enabled
    /\ ~CallsOf("canvas")[3].enabled
    /\ originalFunctions.toDataURL = "detectorHook"
    /\ installedToDataURL = "detectorHook"

====
